---- MODULE Spec2Model ----
(***************************************************************************)
(* The uniter's mode state machine (worker/uniter/modes.go): the modes,    *)
(* the operations they run through the operation executor, the event       *)
(* streams they select on, and the hosting loop that runs one mode after   *)
(* another.                                                                *)
(***************************************************************************)
EXTENDS Integers, FiniteSets, Sequences, TLC

(* ---------------------------- bounds ---------------------------------- *)
MaxCurl == 2          \* charm URLs are 1..MaxCurl
MaxReady == 1         \* events that may be ready on the streams at once
MaxRelations == 1     \* relations the unit is in when it starts

(* ---------------------------- values ---------------------------------- *)
NoCurl == 0
Curls == 1..MaxCurl

NoHook == "none"
LeaderSettingsChanged == "leader-settings-changed"
RelationHooks == {"relation-changed", "relation-broken"}
Hooks == {"install", "upgrade-charm", "config-changed", "start", "stop",
          LeaderSettingsChanged, "meter-status-changed", "collect-metrics",
          "relation-changed", "relation-broken", "storage-attached"}

Kinds == {"Install", "Upgrade", "RunHook", "RunAction", "Continue"}
Steps == {"Pending", "Queued", "Done"}
NoStep == ""

\* errors: the cause (errors.Cause), the annotation, the charm URL of a
\* deploy conflict
NilErr == [cause |-> "nil", note |-> "", curl |-> NoCurl]
Err(c) == [cause |-> c, note |-> "", curl |-> NoCurl]
ConflictErr(c) == [cause |-> "Conflict", note |-> "", curl |-> c]
ErrHookFailed == "ErrHookFailed"
ErrCannotAcceptLeadership == "ErrCannotAcceptLeadership"
ErrDying == "ErrDying"
ErrTerminateAgent == "ErrTerminateAgent"

\* errors.Annotatef: nil stays nil, the cause is kept
Annotatef(err, name) ==
    IF err.cause = "nil" THEN NilErr ELSE [err EXCEPT !.note = name]

(* ------------------------ operation catalog --------------------------- *)
NoOp == [kind |-> "none", hook |-> NoHook, curl |-> NoCurl, phase |-> ""]
Creator(k, h, c) == [kind |-> k, hook |-> h, curl |-> c, phase |-> "created"]
newInstallOp(curl) == Creator("install", NoHook, curl)
newUpgradeOp(curl) == Creator("upgrade", NoHook, curl)
newRevertUpgradeOp(curl) == Creator("revertUpgrade", NoHook, curl)
newResolvedUpgradeOp(curl) == Creator("resolvedUpgrade", NoHook, curl)
newRunHookOp(h) == Creator("runHook", h, NoCurl)
newSimpleRunHookOp(h) == newRunHookOp(h)
newRetryHookOp(h) == Creator("retryHook", h, NoCurl)
newSkipHookOp(h) == Creator("skipHook", h, NoCurl)
newActionOp == Creator("action", NoHook, NoCurl)
newAcceptLeadershipOp == Creator("acceptLeadership", NoHook, NoCurl)
newResignLeadershipOp == Creator("resignLeadership", NoHook, NoCurl)
newUpdateRelationsOp == Creator("updateRelations", NoHook, NoCurl)
newUpdateStorageOp == Creator("updateStorage", NoHook, NoCurl)
NilCreator == Creator("nil", NoHook, NoCurl)

HookOpKinds == {"runHook", "retryHook", "skipHook"}
DeployOpKinds == {"install", "upgrade", "revertUpgrade", "resolvedUpgrade"}
LeaderOpKinds == {"acceptLeadership", "resignLeadership"}

(* ------------------------------ events -------------------------------- *)
UpgradeEvents == {<<"upgrade", c>> : c \in Curls}
ResolvedRetryHooks == "retry-hooks"
ResolvedNoHooks == "no-hooks"
ResolvedModes == {ResolvedRetryHooks, ResolvedNoHooks, "bogus"}
ResolvedEvents == {<<"resolved", rm>> : rm \in ResolvedModes}
PlainEvents == {<<"relations", 0>>, <<"action", 0>>, <<"storage", 0>>,
                <<"config", 0>>, <<"meterStatus", 0>>, <<"collectMetrics", 0>>,
                <<"relationHook", 0>>, <<"storageHook", 0>>,
                <<"leaderSettings", 0>>, <<"unitChange", 0>>}
\* the unit watcher's Changes channel is closed: a receive yields ok = false
WatcherClosed == <<"unitChange", 1>>
Events == UpgradeEvents \cup ResolvedEvents \cup PlainEvents \cup {WatcherClosed}
Stream(e) == e[1]

(* ------------------------------ state --------------------------------- *)
VARIABLES
    mode,            \* the mode the hosting loop runs: its tag
    modeCurl,        \* ... and the charm URL of Installing/Upgrading/Conflicted
    pc,              \* where the running mode is: entry, a wait, an operation
    local,           \* opState as read by the mode at its entry
    leaderElected,   \* the mode holds a WaitLeader ticket
    leaderDeposed,   \* the mode holds a WaitMinion ticket
    ret,             \* what the last mode returned: (next, err), and which
    claimed,         \* the mode called leadershipTracker.ClaimLeader
    before,          \* opState when runOperation was called
    exitErr,         \* the error the hosting loop exited with
    op,              \* the operation inside runOperation
    result,          \* what runOperation returned to the mode
    inflight,        \* runOperation calls that have not returned
    status,          \* agent status: state and the hook it reports
    wantResolved, wantUpgrade, wantLeaderSettings,   \* filter subscriptions
    hooksRunning,    \* relations.StartHooks without StopHooks
    relsDying,       \* relations.SetDying was called (by this process)
    dead,            \* unit.EnsureDead succeeded
    ready,           \* events ready on the filter/relations/storage streams
    opState,         \* the persisted operation state
    ranConfigChanged, ranLeaderSettingsChanged,   \* per-process flags
    isLeader,        \* what the leadership tracker reports
    leaderElection,  \* feature flag
    tombDying,       \* the tomb is dying
    unitDying,       \* the unit is dying
    hasSubs,         \* the unit has subordinates
    nRel,            \* len(relations.GetInfo())
    resume,          \* the hook found in opState at the last (re)start, and
                     \* the first hook operation started after it
    resigned,        \* the dying loop's resign-leadership has succeeded
    clientStore,     \* jujuclient.ClientStore: the controllers registered
    configStore,     \* configstore.Storage and the current model's name
    command          \* the command line run last: its arguments and outcome

modeVars == <<mode, modeCurl, pc, local, leaderElected, leaderDeposed, ret,
              claimed, before, exitErr, op, result, inflight, status,
              wantResolved, wantUpgrade, wantLeaderSettings, hooksRunning,
              relsDying, dead, ready, opState>>
envVars == <<ranConfigChanged, ranLeaderSettingsChanged, isLeader,
             leaderElection, tombDying, unitDying, hasSubs, nRel>>
uniterVars == <<modeVars, envVars, resume, resigned>>
cliVars == <<clientStore, configStore, command>>
vars == <<uniterVars, cliVars>>

\* no command line is part of the unit agent's run
NoClientStore == [Controllers |-> {}, Models |-> {}, Accounts |-> {},
                  CurrentControllerName |-> ""]
NoConfigStore == [infos |-> <<>>, current |-> ""]
NoCommand == [cmd |-> ""]
NoCli ==
    /\ clientStore = NoClientStore /\ configStore = NoConfigStore
    /\ command = NoCommand

State(k, st, h, c, l, sd) ==
    [Kind |-> k, Step |-> st, Hook |-> h, CharmURL |-> c, Leader |-> l,
     Started |-> sd]
NoLocal == State("", NoStep, NoHook, NoCurl, FALSE, FALSE)
NoRet == [from |-> "", next |-> "", curl |-> NoCurl, err |-> NilErr]
NoStatus == [state |-> "", hook |-> NoHook]
NoResume == [Kind |-> "", Step |-> NoStep, Hook |-> NoHook,
             first |-> "", firstHook |-> NoHook]
Snapshot(s) == [Kind |-> s.Kind, Step |-> s.Step, Hook |-> s.Hook,
                first |-> "", firstHook |-> NoHook]

\* the mode-side state as one value, so that a mode is a function on it;
\* oracle holds what the collaborators answer during this step
Cur(o) == [oracle |-> o,
        mode |-> mode, modeCurl |-> modeCurl, pc |-> pc, local |-> local,
        leaderElected |-> leaderElected, leaderDeposed |-> leaderDeposed,
        ret |-> ret, claimed |-> claimed, before |-> before,
        opState |-> opState, exitErr |-> exitErr, op |-> op, result |-> result,
        inflight |-> inflight, status |-> status,
        wantResolved |-> wantResolved, wantUpgrade |-> wantUpgrade,
        wantLeaderSettings |-> wantLeaderSettings,
        hooksRunning |-> hooksRunning, relsDying |-> relsDying,
        dead |-> dead, ready |-> ready]

Apply(m) ==
    /\ mode' = m.mode /\ modeCurl' = m.modeCurl /\ pc' = m.pc
    /\ local' = m.local
    /\ leaderElected' = m.leaderElected /\ leaderDeposed' = m.leaderDeposed
    /\ ret' = m.ret /\ exitErr' = m.exitErr
    /\ claimed' = m.claimed /\ before' = m.before /\ opState' = m.opState
    /\ op' = m.op /\ result' = m.result /\ inflight' = m.inflight
    /\ status' = m.status
    /\ wantResolved' = m.wantResolved /\ wantUpgrade' = m.wantUpgrade
    /\ wantLeaderSettings' = m.wantLeaderSettings
    /\ hooksRunning' = m.hooksRunning /\ relsDying' = m.relsDying
    /\ dead' = m.dead /\ ready' = m.ready

\* what the collaborators answer during one step of a mode: whether
\* relations.StopHooks fails (asked only when ModeAbide returns), and which of
\* the calls the step makes fails, if one does; a failing call is returned as
\* the mode's error, so StopHooks is not asked about next to it
NoFail == "none"
Oracles(calls) ==
    {o \in [stopHooksFails : IF mode = "Abide" THEN BOOLEAN ELSE {FALSE},
            fails : calls \cup {NoFail}] :
        ~(o.stopHooksFails /\ o.fails # NoFail)}

(* --------------------------- hosting loop ----------------------------- *)
\* The loop that runs the modes: a nil error runs the returned mode, a hook
\* failure runs ModeHookError, a deploy conflict runs ModeConflicted for the
\* conflicting charm, any other error ends the loop.
HostLoop(next, curl, err) ==
    CASE err.cause = "nil" ->
            [mode |-> next, modeCurl |-> curl, pc |-> "entry", exit |-> NilErr]
      [] err.cause = ErrHookFailed ->
            [mode |-> "HookError", modeCurl |-> NoCurl, pc |-> "entry",
             exit |-> NilErr]
      [] err.cause = "Conflict" ->
            [mode |-> "Conflicted", modeCurl |-> err.curl, pc |-> "entry",
             exit |-> NilErr]
      [] OTHER ->
            [mode |-> "Exited", modeCurl |-> NoCurl, pc |-> "exited",
             exit |-> err]

\* the process ends: what it held in memory is gone
ProcessExit(m) ==
    [m EXCEPT !.ready = {}, !.wantResolved = FALSE, !.wantUpgrade = "none",
              !.wantLeaderSettings = FALSE, !.hooksRunning = FALSE,
              !.relsDying = FALSE, !.claimed = FALSE]

\* modeContext's deferred function: annotate the error with the mode's name
modeContext(name, err) == Annotatef(err, name)

\* ModeAbide's deferred function, which runs on every return after
\* relations.StartHooks: a StopHooks error replaces a nil error only
StopHooksDeferred(m, err) ==
    IF m.mode = "Abide" /\ m.hooksRunning /\ m.oracle.stopHooksFails
       /\ err.cause = "nil"
    THEN Err("StopHooksFailed") ELSE err

\* (variant: the deferred StopHooks runs only on a return without error)
ReturnLeavesHooksOnError(m, next, curl, err0) ==
    LET err == modeContext(m.mode, StopHooksDeferred(m, err0))
        h == HostLoop(next, curl, err)
        m1 == [m EXCEPT !.ret = [from |-> m.mode, next |-> next,
                                 curl |-> curl, err |-> err],
                        !.mode = h.mode, !.modeCurl = h.modeCurl, !.pc = h.pc,
                        !.exitErr = h.exit,
                        !.hooksRunning =
                            IF m.mode = "Abide" /\ err0 = NilErr
                            THEN FALSE ELSE @,
                        !.local = NoLocal,
                        !.leaderElected = FALSE, !.leaderDeposed = FALSE,
                        !.op = NoOp, !.result = "none", !.before = NoLocal]
    IN IF h.mode = "Exited" THEN ProcessExit(m1) ELSE m1

\* a mode returns (next, err): its deferred functions run, then the hosting
\* loop chooses what runs next
Return(m, next, curl, err0) ==
    LET err == modeContext(m.mode, StopHooksDeferred(m, err0))
        h == HostLoop(next, curl, err)
        m1 == [m EXCEPT !.ret = [from |-> m.mode, next |-> next,
                                 curl |-> curl, err |-> err],
                        !.mode = h.mode, !.modeCurl = h.modeCurl, !.pc = h.pc,
                        !.exitErr = h.exit,
                        !.hooksRunning = IF m.mode = "Abide" THEN FALSE ELSE @,
                        !.local = NoLocal,
                        !.leaderElected = FALSE, !.leaderDeposed = FALSE,
                        !.op = NoOp, !.result = "none", !.before = NoLocal]
    IN IF h.mode = "Exited" THEN ProcessExit(m1) ELSE m1

\* a run-time panic (nil dereference, nil function call) ends the process
Panic(m) ==
    ProcessExit(
        [m EXCEPT !.ret = [from |-> m.mode, next |-> "nil", curl |-> NoCurl,
                           err |-> Err("panic")],
                  !.mode = "Exited", !.modeCurl = NoCurl, !.pc = "exited",
                  !.exitErr = Err("panic"),
                  !.local = NoLocal,
                  !.leaderElected = FALSE, !.leaderDeposed = FALSE,
                  !.op = NoOp, !.result = "none", !.before = NoLocal])

\* (variant: the modes take part in leadership whatever the flag says)
EnabledIgnoresFlag(m) == TRUE

\* featureflag.Enabled(feature.LeaderElection), and what the ticket of
\* leadershipTracker.ClaimLeader() resolves to, as the invocation reads them
Enabled(m) ==
    IF "flag" \in DOMAIN m.oracle THEN m.oracle.flag ELSE leaderElection
ClaimLeader(m) ==
    IF "claim" \in DOMAIN m.oracle THEN m.oracle.claim ELSE isLeader

\* a call to a collaborator fails: return nil, errors.Trace(err)
CallFails(m, call) == m.oracle.fails = call
ReturnFailed(m, call) == Return(m, "nil", NoCurl, Err(call))

\* runOperation as a call that does not wait for the operation
runOperationDetached(m, site, creator) ==
    IF creator.kind = "nil" THEN Panic(m)
    ELSE [m EXCEPT !.op = creator, !.result = "none",
                   !.inflight = @ + 1, !.before = m.opState]

\* u.runOperation(creator) called at site: the mode is inside the call until
\* the executor hands back a result
runOperation(m, site, creator) ==
    IF creator.kind = "nil" THEN Panic(m)
    ELSE [m EXCEPT !.pc = site, !.op = creator, !.result = "none",
                   !.inflight = @ + 1, !.before = m.opState]

\* continueAfter: run the operation, then return ModeContinue or the error
continueAfter(m, creator) == runOperation(m, "continueAfter", creator)

\* the error wrapped in a new error that does not keep its cause
OpErrOpaque(m) == Err("other")

\* the error runOperation handed back, as the mode sees it (errors.Trace
\* keeps the cause)
OpErr(m) ==
    IF m.result = "Conflict" THEN ConflictErr(m.op.curl) ELSE Err(m.result)

\* (variant: after the operation the mode returned is ModeAbide)
continueAfterReturnsAbide(m) ==
    IF m.result = "ok" THEN Return(m, "Abide", NoCurl, NilErr)
    ELSE Return(m, "nil", NoCurl, OpErr(m))

continueAfterReturn(m) ==
    IF m.result = "ok" THEN Return(m, "Continue", NoCurl, NilErr)
    ELSE Return(m, "nil", NoCurl, OpErr(m))

(* --------------------------- ModeContinue ----------------------------- *)
\* the dispatch with the Queued and Done cases taken the same way
ContinueDispatchSkipsQueued(m, s) ==
    IF s.Hook = NoHook THEN Panic(m)
    ELSE IF s.Kind = "RunHook" /\ s.Step = "Pending"
    THEN Return(m, "HookError", NoCurl, NilErr)
    ELSE IF s.Kind \in {"RunHook", "RunAction"}
    THEN continueAfter(m, newSkipHookOp(s.Hook))
    ELSE IF s.Hook = "stop" THEN Return(m, "Terminating", NoCurl, NilErr)
    ELSE Return(m, "Abide", NoCurl, NilErr)

\* the dispatch with the stop hook taken as any other hook
ContinueDispatchIgnoresStop(m, s) ==
    IF s.Hook = NoHook THEN Panic(m)
    ELSE IF s.Kind = "RunHook" /\ s.Step = "Pending"
    THEN Return(m, "HookError", NoCurl, NilErr)
    ELSE IF s.Kind = "RunHook" /\ s.Step = "Queued"
    THEN continueAfter(m, newRunHookOp(s.Hook))
    ELSE IF s.Kind \in {"RunHook", "RunAction"}
    THEN continueAfter(m, newSkipHookOp(s.Hook))
    ELSE Return(m, "Abide", NoCurl, NilErr)

\* the dispatch with a pending hook attempted again
ContinueDispatchRetriesPending(m, s) ==
    IF s.Hook = NoHook THEN Panic(m)
    ELSE IF s.Kind = "RunHook" /\ s.Step = "Pending"
    THEN continueAfter(m, newRetryHookOp(s.Hook))
    ELSE IF s.Kind = "RunHook" /\ s.Step = "Queued"
    THEN continueAfter(m, newRunHookOp(s.Hook))
    ELSE IF s.Kind \in {"RunHook", "RunAction"}
    THEN continueAfter(m, newSkipHookOp(s.Hook))
    ELSE IF s.Hook = "stop" THEN Return(m, "Terminating", NoCurl, NilErr)
    ELSE Return(m, "Abide", NoCurl, NilErr)

\* the dispatch with an interrupted action run again
ContinueDispatchRerunsAction(m, s) ==
    IF s.Hook = NoHook THEN Panic(m)
    ELSE IF s.Kind = "RunAction" THEN continueAfter(m, newActionOp)
    ELSE IF s.Kind = "RunHook" /\ s.Step = "Pending"
    THEN Return(m, "HookError", NoCurl, NilErr)
    ELSE IF s.Kind = "RunHook" /\ s.Step = "Queued"
    THEN continueAfter(m, newRunHookOp(s.Hook))
    ELSE IF s.Kind = "RunHook"
    THEN continueAfter(m, newSkipHookOp(s.Hook))
    ELSE IF s.Hook = "stop" THEN Return(m, "Terminating", NoCurl, NilErr)
    ELSE Return(m, "Abide", NoCurl, NilErr)

\* the dispatch with a queued hook retried instead of run
ContinueDispatchRetriesQueued(m, s) ==
    IF s.Hook = NoHook THEN Panic(m)
    ELSE IF s.Kind = "RunHook" /\ s.Step = "Pending"
    THEN Return(m, "HookError", NoCurl, NilErr)
    ELSE IF s.Kind = "RunHook" /\ s.Step = "Queued"
    THEN continueAfter(m, newRetryHookOp(s.Hook))
    ELSE IF s.Kind \in {"RunHook", "RunAction"}
    THEN continueAfter(m, newSkipHookOp(s.Hook))
    ELSE IF s.Hook = "stop" THEN Return(m, "Terminating", NoCurl, NilErr)
    ELSE Return(m, "Abide", NoCurl, NilErr)

\* the dispatch with a hook that is Done run once more
ContinueDispatchRerunsDone(m, s) ==
    IF s.Hook = NoHook THEN Panic(m)
    ELSE IF s.Kind = "RunHook" /\ s.Step = "Pending"
    THEN Return(m, "HookError", NoCurl, NilErr)
    ELSE IF s.Kind = "RunHook"
    THEN continueAfter(m, newRunHookOp(s.Hook))
    ELSE IF s.Kind = "RunAction"
    THEN continueAfter(m, newSkipHookOp(s.Hook))
    ELSE IF s.Hook = "stop" THEN Return(m, "Terminating", NoCurl, NilErr)
    ELSE Return(m, "Abide", NoCurl, NilErr)

\* modes.go:77-106, the dispatch on the persisted Kind and Step
ContinueDispatch(m, s) ==
    CASE s.Kind = "RunAction" ->
            IF s.Hook = NoHook THEN Panic(m)
            ELSE continueAfter(m, newSkipHookOp(s.Hook))
      [] s.Kind = "RunHook" /\ s.Step \in Steps /\ s.Hook = NoHook -> Panic(m)
      [] s.Kind = "RunHook" /\ s.Step = "Pending" /\ s.Hook # NoHook ->
            Return(m, "HookError", NoCurl, NilErr)
      [] s.Kind = "RunHook" /\ s.Step = "Queued" /\ s.Hook # NoHook ->
            continueAfter(m, newRunHookOp(s.Hook))
      [] s.Kind = "RunHook" /\ s.Step = "Done" /\ s.Hook # NoHook ->
            continueAfter(m, newSkipHookOp(s.Hook))
      [] s.Kind = "RunHook" /\ s.Step \notin Steps ->
            continueAfter(m, NilCreator)
      [] s.Kind = "Continue" ->
            IF s.Hook = NoHook THEN Panic(m)
            ELSE IF s.Hook = "stop"
                 THEN Return(m, "Terminating", NoCurl, NilErr)
                 ELSE Return(m, "Abide", NoCurl, NilErr)
      [] OTHER -> Return(m, "nil", NoCurl, Err("unknown operation kind"))

\* ModeContinue with the leadership check ahead of the Install/Upgrade check
ModeContinueClaimsFirst(m) ==
    LET s == m.opState
        m1 == [m EXCEPT !.claimed = Enabled(m)] IN
    IF Enabled(m) /\ ClaimLeader(m) # s.Leader
    THEN runOperation([m1 EXCEPT !.local = s], "leadership",
                      IF ClaimLeader(m) THEN newAcceptLeadershipOp
                                  ELSE newResignLeadershipOp)
    ELSE IF s.Kind = "Install"
    THEN Return(m1, "Installing", s.CharmURL, NilErr)
    ELSE IF s.Kind = "Upgrade"
    THEN Return(m1, "Upgrading", s.CharmURL, NilErr)
    ELSE ContinueDispatch(m1, s)

\* ModeContinue with the two leadership operations exchanged
ModeContinueSwapsLeadership(m) ==
    LET s == m.opState
        m1 == [m EXCEPT !.claimed = Enabled(m)] IN
    IF s.Kind = "Install" THEN Return(m, "Installing", s.CharmURL, NilErr)
    ELSE IF s.Kind = "Upgrade" THEN Return(m, "Upgrading", s.CharmURL, NilErr)
    ELSE IF Enabled(m) /\ ClaimLeader(m) # s.Leader
    THEN runOperation([m1 EXCEPT !.local = s], "leadership",
                      IF ClaimLeader(m) THEN newResignLeadershipOp
                                  ELSE newAcceptLeadershipOp)
    ELSE ContinueDispatch(m1, s)

\* modes.go:28-75, up to the leadership operation or the dispatch
ModeContinue(m) ==
    LET s == m.opState IN
    IF s.Kind = "Install" THEN Return(m, "Installing", s.CharmURL, NilErr)
    ELSE IF s.Kind = "Upgrade" THEN Return(m, "Upgrading", s.CharmURL, NilErr)
    ELSE IF CallFails(m, "initializeMetricsCollector")
    THEN ReturnFailed(m, "initializeMetricsCollector")
    ELSE IF Enabled(m)
    THEN LET m1 == [m EXCEPT !.claimed = TRUE] IN
         IF ClaimLeader(m) # s.Leader
         THEN runOperation([m1 EXCEPT !.local = s], "leadership",
                           IF ClaimLeader(m) THEN newAcceptLeadershipOp
                                       ELSE newResignLeadershipOp)
         ELSE ContinueDispatch(m1, s)
    ELSE ContinueDispatch(m, s)

\* the leadership return trying the operation again when it was refused
ContinueLeadershipReturnRetries(m) ==
    IF m.result = "ok" THEN Return(m, "Continue", NoCurl, NilErr)
    ELSE IF m.result # ErrCannotAcceptLeadership
         THEN Return(m, "nil", NoCurl, OpErr(m))
         ELSE runOperation(m, "leadership", newAcceptLeadershipOp)

\* the leadership return taking the flag the tracker claimed when the
\* operation could not accept leadership
ContinueLeadershipReturnAssumesLeader(m) ==
    IF m.result = "ok" THEN Return(m, "Continue", NoCurl, NilErr)
    ELSE IF m.result # ErrCannotAcceptLeadership
         THEN Return(m, "nil", NoCurl, OpErr(m))
         ELSE ContinueDispatch([m EXCEPT !.result = "none", !.local = NoLocal,
                                         !.op = NoOp, !.before = NoLocal,
                                         !.opState.Leader = TRUE],
                               m.local)

\* modes.go:67-74, after the leadership operation
ContinueLeadershipReturn(m) ==
    IF m.result = "ok" THEN Return(m, "Continue", NoCurl, NilErr)
    ELSE IF m.result # ErrCannotAcceptLeadership
         THEN Return(m, "nil", NoCurl, OpErr(m))
         ELSE ContinueDispatch([m EXCEPT !.result = "none", !.local = NoLocal,
                                         !.op = NoOp, !.before = NoLocal],
                               m.local)

(* -------------------- ModeInstalling, ModeUpgrading ------------------- *)
\* ModeInstalling going on to the install operation when SetAgentStatus fails
ModeInstallingIgnoresStatusError(m) ==
    IF CallFails(m, "SetAgentStatus")
    THEN continueAfter(m, newInstallOp(m.modeCurl))
    ELSE continueAfter([m EXCEPT !.status = [state |-> "installing",
                                             hook |-> NoHook]],
                       newInstallOp(m.modeCurl))

\* modes.go:112-125
ModeInstalling(m) ==
    IF CallFails(m, "SetAgentStatus") THEN ReturnFailed(m, "SetAgentStatus")
    ELSE continueAfter([m EXCEPT !.status = [state |-> "installing",
                                             hook |-> NoHook]],
                       newInstallOp(m.modeCurl))

\* ModeUpgrading recording the upgrade in opState itself
ModeUpgradingRecordsUpgrade(m) ==
    continueAfter([m EXCEPT !.opState.Kind = "Upgrade",
                            !.opState.CharmURL = m.modeCurl],
                  newUpgradeOp(m.modeCurl))

\* modes.go:132-138
ModeUpgrading(m) == continueAfter(m, newUpgradeOp(m.modeCurl))

(* ------------------------------ selects ------------------------------- *)
Tomb == <<"tomb", 0>>
UnitDying == <<"unitDying", 0>>
LeaderElected == <<"leaderElected", 0>>
LeaderDeposed == <<"leaderDeposed", 0>>

\* the cases of a select that can proceed: closed channels, ready events of
\* the streams the select names, leadership tickets that have fired
ReadyCases(m, streams) ==
    {c \in {Tomb} : tombDying /\ "tomb" \in streams}
    \cup {c \in {UnitDying} : unitDying /\ "unitDying" \in streams}
    \cup {c \in {LeaderElected} :
            m.leaderElected /\ isLeader /\ "leaderElected" \in streams}
    \cup {c \in {LeaderDeposed} :
            m.leaderDeposed /\ ~isLeader /\ "leaderDeposed" \in streams}
    \cup {e \in m.ready : Stream(e) \in streams}

\* (variant: a ticket that has fired is not set to nil and stays armed)
ReceiveKeepsTicket(m, c) ==
    [m EXCEPT !.ready = @ \ {c}]

\* receiving from a case: an event leaves its stream, a ticket is used up
Receive(m, c) ==
    [m EXCEPT !.ready = @ \ {c},
              !.leaderElected = IF c = LeaderElected THEN FALSE ELSE @,
              !.leaderDeposed = IF c = LeaderDeposed THEN FALSE ELSE @]

RelationHook(m) == IF m.relsDying THEN "relation-broken" ELSE "relation-changed"

(* ----------------------------- ModeAbide ------------------------------ *)
AliveStreams == {"tomb", "unitDying", "upgrade", "relations", "action",
                 "storage", "config", "meterStatus", "collectMetrics",
                 "relationHook", "storageHook", "leaderElected",
                 "leaderDeposed", "leaderSettings"}
DyingStreams == {"tomb", "action", "config", "leaderSettings", "relationHook"}

\* modes.go:251-259, the top of an alive-loop iteration, then the select
AliveLoopTop(m) ==
    LET arm == Enabled(m) /\ ~m.leaderElected /\ ~m.leaderDeposed IN
    [m EXCEPT !.pc = "alive.select", !.result = "none", !.op = NoOp,
              !.before = NoLocal,
              !.local = NoLocal,
              !.leaderDeposed = IF arm /\ m.opState.Leader THEN TRUE ELSE @,
              !.leaderElected = IF arm /\ ~m.opState.Leader THEN TRUE ELSE @]

\* DyingLoopTop running the stop hook whatever relations remain
DyingLoopTopStopsEarly(m) ==
    continueAfter(m, newSimpleRunHookOp("stop"))

\* modes.go:329-332, the top of a dying-loop iteration, then the select
DyingLoopTop(m) ==
    IF nRel = 0 THEN continueAfter(m, newSimpleRunHookOp("stop"))
    ELSE [m EXCEPT !.pc = "dying.select", !.result = "none", !.op = NoOp,
                   !.before = NoLocal]

\* the calls modeAbideDyingLoop makes before its loop
DyingCalls == {"Refresh", "DestroyAllSubordinates", "SetDying"}

\* modes.go:306-328
modeAbideDyingLoop(m) ==
    LET m1 == [m EXCEPT !.relsDying = TRUE, !.local = NoLocal,
                        !.leaderElected = FALSE, !.leaderDeposed = FALSE] IN
    IF CallFails(m, "Refresh") THEN ReturnFailed(m, "Refresh")
    ELSE IF CallFails(m, "DestroyAllSubordinates")
    THEN ReturnFailed(m, "DestroyAllSubordinates")
    ELSE IF CallFails(m, "SetDying") THEN ReturnFailed(m, "SetDying")
    ELSE IF Enabled(m) /\ m.opState.Leader
    THEN runOperation(m1, "dying.resign", newResignLeadershipOp)
    ELSE DyingLoopTop(m1)

DyingResignReturn(m) ==
    IF m.result # "ok" THEN Return(m, "nil", NoCurl, OpErr(m))
    ELSE DyingLoopTop(m)

\* AliveCreator answering a meter-status change with the config-changed hook
AliveCreatorMeterAsConfig(m, c) ==
    CASE Stream(c) = "relations" -> newUpdateRelationsOp
      [] Stream(c) = "action" -> newActionOp
      [] Stream(c) = "storage" -> newUpdateStorageOp
      [] Stream(c) = "config" -> newSimpleRunHookOp("config-changed")
      [] Stream(c) = "meterStatus" -> newSimpleRunHookOp("config-changed")
      [] Stream(c) = "collectMetrics" -> newSimpleRunHookOp("collect-metrics")
      [] Stream(c) = "relationHook" -> newRunHookOp(RelationHook(m))
      [] Stream(c) = "storageHook" -> newRunHookOp("storage-attached")
      [] Stream(c) = "leaderElected" -> newAcceptLeadershipOp
      [] Stream(c) = "leaderDeposed" -> newResignLeadershipOp
      [] Stream(c) = "leaderSettings" -> newSimpleRunHookOp(LeaderSettingsChanged)
      [] OTHER -> NilCreator

\* modes.go:264-297, the operation an alive-loop event maps to
AliveCreator(m, c) ==
    CASE Stream(c) = "relations" -> newUpdateRelationsOp
      [] Stream(c) = "action" -> newActionOp
      [] Stream(c) = "storage" -> newUpdateStorageOp
      [] Stream(c) = "config" -> newSimpleRunHookOp("config-changed")
      [] Stream(c) = "meterStatus" -> newSimpleRunHookOp("meter-status-changed")
      [] Stream(c) = "collectMetrics" -> newSimpleRunHookOp("collect-metrics")
      [] Stream(c) = "relationHook" -> newRunHookOp(RelationHook(m))
      [] Stream(c) = "storageHook" -> newRunHookOp("storage-attached")
      [] Stream(c) = "leaderElected" -> newAcceptLeadershipOp
      [] Stream(c) = "leaderDeposed" -> newResignLeadershipOp
      [] Stream(c) = "leaderSettings" -> newSimpleRunHookOp(LeaderSettingsChanged)
      [] OTHER -> NilCreator

\* the alive loop with a case that goes round without an operation
modeAbideAliveLoopDropsEvent(m, c) ==
    LET m1 == Receive(m, c) IN
    CASE c = Tomb -> Return(m1, "nil", NoCurl, Err(ErrDying))
      [] c = UnitDying -> modeAbideDyingLoop(m1)
      [] Stream(c) = "upgrade" -> Return(m1, "Upgrading", c[2], NilErr)
      [] Stream(c) = "meterStatus" -> AliveLoopTop(m1)
      [] OTHER -> runOperation(m1, "alive.op", AliveCreator(m1, c))

\* modes.go:265-300, one case of the alive loop's select
modeAbideAliveLoop(m, c) ==
    LET m1 == Receive(m, c) IN
    CASE c = Tomb -> Return(m1, "nil", NoCurl, Err(ErrDying))
      [] c = UnitDying -> modeAbideDyingLoop(m1)
      [] Stream(c) = "upgrade" -> Return(m1, "Upgrading", c[2], NilErr)
      [] OTHER -> runOperation(m1, "alive.op", AliveCreator(m1, c))

\* the alive loop running a failed operation once more
AliveOpReturnRetries(m) ==
    IF m.result # "ok"
    THEN runOperation(m, "alive.op", [m.op EXCEPT !.phase = "created"])
    ELSE AliveLoopTop(m)

\* modes.go:298-300
AliveOpReturn(m) ==
    IF m.result # "ok" THEN Return(m, "nil", NoCurl, OpErr(m))
    ELSE AliveLoopTop(m)

\* modes.go:333-349, one case of the dying loop's select
DyingCreator(m, c) ==
    CASE Stream(c) = "action" -> newActionOp
      [] Stream(c) = "config" -> newSimpleRunHookOp("config-changed")
      [] Stream(c) = "leaderSettings" -> newSimpleRunHookOp(LeaderSettingsChanged)
      [] Stream(c) = "relationHook" -> newRunHookOp(RelationHook(m))
      [] OTHER -> NilCreator

\* the dying loop running the stop hook when it is cancelled
DyingLoopCaseStopsOnCancel(m, c) ==
    LET m1 == Receive(m, c) IN
    IF c = Tomb THEN continueAfter(m1, newSimpleRunHookOp("stop"))
    ELSE runOperation(m1, "dying.op", DyingCreator(m1, c))

DyingLoopCase(m, c) ==
    LET m1 == Receive(m, c) IN
    IF c = Tomb THEN Return(m1, "nil", NoCurl, Err(ErrDying))
    ELSE runOperation(m1, "dying.op", DyingCreator(m1, c))

DyingOpReturn(m) ==
    IF m.result # "ok" THEN Return(m, "nil", NoCurl, OpErr(m))
    ELSE DyingLoopTop(m)

\* AbideRest asking for the start hook before config-changed
AbideRestStartFirst(m, s) ==
    IF ~s.Started
    THEN continueAfter(m, newSimpleRunHookOp("start"))
    ELSE IF ~ranConfigChanged
    THEN continueAfter(m, newSimpleRunHookOp("config-changed"))
    ELSE IF CallFails(m, "SetAgentStatus")
    THEN ReturnFailed(m, "SetAgentStatus")
    ELSE LET m1 == [m EXCEPT !.status = [state |-> "active", hook |-> NoHook],
                             !.wantUpgrade = "any",
                             !.hooksRunning = TRUE]
         IN IF unitDying THEN modeAbideDyingLoop(m1) ELSE AliveLoopTop(m1)

\* modes.go:217-244, from the config-changed check to the loops; s is the
\* opState read at the mode's entry
AbideRest(m, s) ==
    IF ~ranConfigChanged
    THEN continueAfter(m, newSimpleRunHookOp("config-changed"))
    ELSE IF ~s.Started
    THEN continueAfter(m, newSimpleRunHookOp("start"))
    ELSE IF CallFails(m, "SetAgentStatus")
    THEN ReturnFailed(m, "SetAgentStatus")
    ELSE LET m1 == [m EXCEPT !.status = [state |-> "active", hook |-> NoHook],
                             !.wantUpgrade = "any",
                             !.hooksRunning = TRUE]
         IN IF unitDying THEN modeAbideDyingLoop(m1) ELSE AliveLoopTop(m1)

\* modes.go:188-216
ModeAbide(m) ==
    LET s == m.opState IN
    IF s.Kind # "Continue"
    THEN Return(m, "nil", NoCurl, Err("insane uniter state"))
    ELSE IF CallFails(m, "Fix") THEN ReturnFailed(m, "Fix")
    ELSE IF Enabled(m)
    THEN LET m1 == [m EXCEPT !.wantLeaderSettings = ~s.Leader, !.local = s] IN
         IF ~s.Leader /\ ~ranLeaderSettingsChanged
         THEN runOperation(m1, "abide.leaderSettings",
                           newSimpleRunHookOp(LeaderSettingsChanged))
         ELSE AbideRest(m1, s)
    ELSE AbideRest([m EXCEPT !.wantLeaderSettings = FALSE, !.local = s], s)

AbideLeaderSettingsReturn(m) ==
    IF m.result # "ok" THEN Return(m, "nil", NoCurl, OpErr(m))
    ELSE AbideRest([m EXCEPT !.result = "none", !.op = NoOp,
                             !.before = NoLocal], m.local)

(* --------------------------- ModeTerminating -------------------------- *)
TerminatingStreams == {"tomb", "action", "unitChange"}

\* modes.go:141-150
ModeTerminating(m) ==
    LET m1 == [m EXCEPT !.status = [state |-> "stopping", hook |-> NoHook]] IN
    IF CallFails(m, "SetAgentStatus") THEN ReturnFailed(m, "SetAgentStatus")
    ELSE IF CallFails(m, "Watch") THEN ReturnFailed(m1, "Watch")
    ELSE [m1 EXCEPT !.pc = "terminating.select"]

\* modes.go:151-179, one case of the select
\* TerminatingCase, marking the unit dead without asking for its subordinates
TerminatingCaseIgnoresSubordinates(m, c) ==
    LET m1 == Receive(m, c) IN
    CASE c = Tomb -> Return(m1, "nil", NoCurl, Err(ErrDying))
      [] Stream(c) = "action" ->
            runOperation(m1, "terminating.op", newActionOp)
      [] c = WatcherClosed ->
            Return(m1, "nil", NoCurl, Err("EnsureErr"))
      [] OTHER ->
            IF CallFails(m, "Refresh") THEN ReturnFailed(m1, "Refresh")
            ELSE IF CallFails(m, "EnsureDead")
            THEN ReturnFailed(m1, "EnsureDead")
            ELSE Return([m1 EXCEPT !.dead = TRUE], "nil", NoCurl,
                        Err(ErrTerminateAgent))

\* (variant: a change of the unit never ends the wait)
TerminatingCaseKeepsWaiting(m, c) ==
    LET m1 == Receive(m, c) IN
    CASE c = Tomb -> Return(m1, "nil", NoCurl, Err(ErrDying))
      [] Stream(c) = "action" ->
            runOperation(m1, "terminating.op", newActionOp)
      [] c = WatcherClosed ->
            Return(m1, "nil", NoCurl, Err("EnsureErr"))
      [] OTHER ->
            IF CallFails(m, "Refresh") THEN ReturnFailed(m1, "Refresh")
            ELSE IF CallFails(m, "HasSubordinates")
            THEN ReturnFailed(m1, "HasSubordinates")
            ELSE m1

\* modes.go:151-179, one case of ModeTerminating's select
TerminatingCase(m, c) ==
    LET m1 == Receive(m, c) IN
    CASE c = Tomb -> Return(m1, "nil", NoCurl, Err(ErrDying))
      [] Stream(c) = "action" ->
            runOperation(m1, "terminating.op", newActionOp)
      [] c = WatcherClosed ->
            Return(m1, "nil", NoCurl, Err("EnsureErr"))
      [] OTHER ->
            IF CallFails(m, "Refresh") THEN ReturnFailed(m1, "Refresh")
            ELSE IF CallFails(m, "HasSubordinates")
            THEN ReturnFailed(m1, "HasSubordinates")
            ELSE IF hasSubs THEN m1
            ELSE IF CallFails(m, "EnsureDead")
            THEN ReturnFailed(m1, "EnsureDead")
            ELSE Return([m1 EXCEPT !.dead = TRUE], "nil", NoCurl,
                        Err(ErrTerminateAgent))

TerminatingOpReturn(m) ==
    IF m.result # "ok" THEN Return(m, "nil", NoCurl, OpErr(m))
    ELSE [m EXCEPT !.pc = "terminating.select", !.result = "none",
                   !.op = NoOp, !.before = NoLocal]

(* ---------------------------- ModeHookError --------------------------- *)
HookErrorStreams == {"tomb", "upgrade", "resolved", "leaderDeposed"}

\* modes.go:391-397, the top of an iteration: status is set again
HookErrorLoopTop(m) ==
    IF CallFails(m, "SetAgentStatus") THEN ReturnFailed(m, "SetAgentStatus")
    ELSE [m EXCEPT !.status = [state |-> "error", hook |-> m.local.Hook],
                   !.pc = "hookError.select", !.result = "none", !.op = NoOp,
                   !.before = NoLocal]

\* modes.go:357-390
ModeHookError(m) ==
    LET s == m.opState IN
    IF s.Kind # "RunHook" \/ s.Step # "Pending"
    THEN Return(m, "nil", NoCurl, Err("insane uniter state"))
    ELSE IF s.Hook = NoHook THEN Panic(m)
    ELSE IF s.Hook \in RelationHooks /\ CallFails(m, "relations.Name")
    THEN ReturnFailed(m, "relations.Name")
    ELSE HookErrorLoopTop([m EXCEPT !.local = s,
                                    !.wantResolved = TRUE,
                                    !.wantUpgrade = "forced",
                                    !.leaderDeposed = Enabled(m) /\ s.Leader])

\* modes.go:398-427, one case of the select
HookErrorCase(m, c) ==
    LET m1 == Receive(m, c) IN
    CASE c = Tomb -> Return(m1, "nil", NoCurl, Err(ErrDying))
      [] Stream(c) = "upgrade" -> Return(m1, "Upgrading", c[2], NilErr)
      [] Stream(c) = "resolved" /\ c[2] = ResolvedRetryHooks ->
            runOperation(m1, "hookError.resolved", newRetryHookOp(m.local.Hook))
      [] Stream(c) = "resolved" /\ c[2] = ResolvedNoHooks ->
            runOperation(m1, "hookError.resolved", newSkipHookOp(m.local.Hook))
      [] Stream(c) = "resolved" /\ c[2] \notin {ResolvedRetryHooks, ResolvedNoHooks} ->
            Return(m1, "nil", NoCurl, Err("unknown resolved mode"))
      [] OTHER ->
            runOperation(m1, "hookError.resign", newResignLeadershipOp)

\* the resolved case going round after a hook failure without the top of the
\* loop
HookErrorResolvedReturnKeepsStatus(m) ==
    IF m.result = ErrHookFailed
    THEN [m EXCEPT !.pc = "hookError.select", !.result = "none", !.op = NoOp,
                   !.before = NoLocal]
    ELSE IF m.result # "ok" THEN Return(m, "nil", NoCurl, OpErr(m))
    ELSE Return(m, "Continue", NoCurl, NilErr)

HookErrorResolvedReturn(m) ==
    IF m.result = ErrHookFailed THEN HookErrorLoopTop(m)
    ELSE IF m.result # "ok" THEN Return(m, "nil", NoCurl, OpErr(m))
    ELSE Return(m, "Continue", NoCurl, NilErr)

\* HookErrorResignReturn waiting for the loss of leadership once more
HookErrorResignReturnRearms(m) ==
    IF m.result # "ok" THEN Return(m, "nil", NoCurl, OpErr(m))
    ELSE HookErrorLoopTop([m EXCEPT !.leaderDeposed = TRUE])

HookErrorResignReturn(m) ==
    IF m.result # "ok" THEN Return(m, "nil", NoCurl, OpErr(m))
    ELSE HookErrorLoopTop(m)

(* --------------------------- ModeConflicted --------------------------- *)
ConflictedStreams == {"tomb", "upgrade", "resolved"}

\* modes.go:434-443
ModeConflicted(m) ==
    IF CallFails(m, "SetAgentStatus") THEN ReturnFailed(m, "SetAgentStatus")
    ELSE [m EXCEPT !.status = [state |-> "error", hook |-> "upgrade failed"],
                   !.wantResolved = TRUE, !.wantUpgrade = "forced",
                   !.pc = "conflicted.select"]

\* the select reverting to the charm the mode was entered for
ConflictedCaseRevertsCurrent(m, c) ==
    LET m1 == Receive(m, c) IN
    CASE c = Tomb -> Return(m1, "nil", NoCurl, Err(ErrDying))
      [] Stream(c) = "upgrade" -> continueAfter(m1, newRevertUpgradeOp(m.modeCurl))
      [] OTHER -> continueAfter(m1, newResolvedUpgradeOp(m.modeCurl))

\* modes.go:444-453
ConflictedCase(m, c) ==
    LET m1 == Receive(m, c) IN
    CASE c = Tomb -> Return(m1, "nil", NoCurl, Err(ErrDying))
      [] Stream(c) = "upgrade" -> continueAfter(m1, newRevertUpgradeOp(c[2]))
      [] OTHER -> continueAfter(m1, newResolvedUpgradeOp(m.modeCurl))

(* ------------------------- operation executor ------------------------- *)
\* The executor runs one operation in three steps, persisting opState before
\* and after the execution: prepare, execute, commit.
ExecutingKinds == {"runHook", "retryHook", "action"} \cup DeployOpKinds

\* the checkpoint persisted before the operation executes
Prepare(o, s) ==
    CASE o.kind \in {"runHook", "retryHook"} ->
            [s EXCEPT !.Kind = "RunHook", !.Step = "Pending", !.Hook = o.hook]
      [] o.kind = "action" ->
            [s EXCEPT !.Kind = "RunAction", !.Step = "Pending"]
      [] o.kind = "install" ->
            [s EXCEPT !.Kind = "Install", !.Step = NoStep, !.Hook = NoHook,
                      !.CharmURL = o.curl]
      [] o.kind \in DeployOpKinds \ {"install"} ->
            [s EXCEPT !.Kind = "Upgrade", !.Step = NoStep, !.Hook = NoHook,
                      !.CharmURL = o.curl]
      [] OTHER -> s

\* the checkpoint persisted after a successful execution
Executed(o, s) ==
    IF o.kind \in {"runHook", "retryHook", "action"}
    THEN [s EXCEPT !.Step = "Done"] ELSE s

\* the state a successful operation commits
Commit(o, s) ==
    CASE o.kind \in HookOpKinds ->
            [s EXCEPT !.Kind = "Continue", !.Step = NoStep, !.Hook = o.hook,
                      !.Started = @ \/ o.hook = "start"]
      [] o.kind = "action" ->
            [s EXCEPT !.Kind = "Continue", !.Step = NoStep]
      [] o.kind = "install" ->
            [s EXCEPT !.Kind = "RunHook", !.Step = "Queued",
                      !.Hook = "install", !.CharmURL = NoCurl]
      [] o.kind \in DeployOpKinds \ {"install"} ->
            [s EXCEPT !.Kind = "RunHook", !.Step = "Queued",
                      !.Hook = "upgrade-charm", !.CharmURL = NoCurl]
      [] o.kind = "acceptLeadership" -> [s EXCEPT !.Leader = TRUE]
      [] o.kind = "resignLeadership" -> [s EXCEPT !.Leader = FALSE]
      [] OTHER -> s

\* the errors an operation can fail with while it executes
Failures(o) ==
    {"other"}
    \cup (IF o.kind \in {"runHook", "retryHook"} THEN {ErrHookFailed} ELSE {})
    \cup (IF o.kind \in DeployOpKinds THEN {"Conflict"} ELSE {})

\* runOperation returns cause to the mode
Fail(cause) ==
    /\ result' = cause
    /\ op' = [op EXCEPT !.phase = "returned"]
    /\ inflight' = inflight - 1

ExecFrame ==
    UNCHANGED <<mode, modeCurl, pc, local, leaderElected, leaderDeposed, ret,
                claimed, before, exitErr, wantResolved, wantUpgrade, wantLeaderSettings,
                hooksRunning, relsDying, dead, ready, isLeader, leaderElection,
                tombDying, unitDying, hasSubs, resume, resigned, cliVars>>

\* accept-leadership is refused whenever a hook or deployment is outstanding
\* (Kind is not Continue), and may be refused in any state
ExecPrepare ==
    /\ op.phase = "created"
    /\ \/ /\ op.kind = "acceptLeadership"
          /\ Fail(ErrCannotAcceptLeadership)
          /\ UNCHANGED <<opState, status>>
       \/ /\ ~(op.kind = "acceptLeadership" /\ opState.Kind # "Continue")
          /\ opState' = Prepare(op, opState)
          /\ op' = [op EXCEPT !.phase = IF op.kind \in ExecutingKinds
                                        THEN "prepared" ELSE "executed"]
          /\ status' = IF op.kind \in {"runHook", "retryHook"}
                       THEN [state |-> "active", hook |-> NoHook]
                       ELSE status
          /\ UNCHANGED <<result, inflight>>
    /\ UNCHANGED <<ranConfigChanged, ranLeaderSettingsChanged, nRel>>
    /\ ExecFrame

ExecExecute ==
    /\ op.phase = "prepared"
    /\ \/ /\ opState' = Executed(op, opState)
          /\ op' = [op EXCEPT !.phase = "executed"]
          /\ UNCHANGED <<result, inflight>>
       \/ \E cause \in Failures(op) :
             /\ Fail(cause)
             /\ UNCHANGED opState
    /\ UNCHANGED <<status, ranConfigChanged, ranLeaderSettingsChanged, nRel>>
    /\ ExecFrame

ExecCommit ==
    /\ op.phase = "executed"
    /\ \/ /\ opState' = Commit(op, opState)
          /\ ranConfigChanged' =
                (ranConfigChanged
                 \/ (op.kind \in HookOpKinds /\ op.hook = "config-changed"))
          /\ ranLeaderSettingsChanged' =
                (ranLeaderSettingsChanged
                 \/ (op.kind \in HookOpKinds /\ op.hook = LeaderSettingsChanged))
          /\ nRel' = IF op.kind \in HookOpKinds /\ op.hook = "relation-broken"
                        /\ nRel > 0
                     THEN nRel - 1 ELSE nRel
          /\ result' = "ok"
          /\ op' = [op EXCEPT !.phase = "returned"]
          /\ inflight' = inflight - 1
       \/ /\ op.kind \notin ExecutingKinds
          /\ Fail("other")
          /\ UNCHANGED <<opState, ranConfigChanged, ranLeaderSettingsChanged,
                         nRel>>
    /\ UNCHANGED status
    /\ ExecFrame

(* ------------------------------ the modes ----------------------------- *)
\* the operation a step started, if it started one
Started(m) == IF m.inflight > inflight THEN m.op ELSE NoOp

\* the step returned from the mode function
Returns(m) == m.pc \in {"entry", "exited"}

\* a step of the running mode; resume notes the first hook operation that
\* is started, is dropped when the mode that started it returns, and is taken
\* again when Installing or Upgrading hands over to Continue
ModeStep(m) ==
    /\ Apply(m)
    /\ resume' =
         IF Started(m).kind \in HookOpKinds
         THEN IF resume.Kind # "" /\ resume.first = ""
              THEN [resume EXCEPT !.first = Started(m).kind,
                                  !.firstHook = Started(m).hook]
              ELSE resume
         ELSE IF Returns(m) /\ resume.first # "" THEN NoResume
         ELSE IF mode \in {"Installing", "Upgrading"} /\ m.mode = "Continue"
                 /\ opState.Kind = "RunHook"
              THEN Snapshot(opState)
              ELSE resume
    /\ resigned' = (resigned \/ (pc = "dying.resign" /\ result = "ok"))
    /\ UNCHANGED <<envVars, cliVars>>

AtEntry(md) == mode = md /\ pc = "entry"
\* a mode function is invoked
\* a mode function is called: what the last one returned has been used
Invoke(o) == [Cur(o) EXCEPT !.claimed = FALSE, !.ret = NoRet]
Returned(site) == pc = site /\ result # "none"

ContinueEntry ==
    AtEntry("Continue") /\ \E o \in Oracles({"initializeMetricsCollector"}) :
        ModeStep(ModeContinue(Invoke(o)))
ContinueLeadership ==
    /\ mode = "Continue" /\ Returned("leadership")
    /\ \E o \in Oracles({}) : ModeStep(ContinueLeadershipReturn(Cur(o)))
ContinueAfter ==
    /\ Returned("continueAfter")
    /\ \E o \in Oracles({}) : ModeStep(continueAfterReturn(Cur(o)))
InstallingEntry ==
    AtEntry("Installing") /\ \E o \in Oracles({"SetAgentStatus"}) :
        ModeStep(ModeInstalling(Invoke(o)))
UpgradingEntry ==
    AtEntry("Upgrading") /\ \E o \in Oracles({}) :
        ModeStep(ModeUpgrading(Invoke(o)))
AbideEntry ==
    AtEntry("Abide") /\ \E o \in Oracles({"Fix", "SetAgentStatus"} \cup DyingCalls) :
        ModeStep(ModeAbide(Invoke(o)))
AbideLeaderSettings ==
    /\ Returned("abide.leaderSettings")
    /\ \E o \in Oracles({"SetAgentStatus"} \cup DyingCalls) : ModeStep(AbideLeaderSettingsReturn(Cur(o)))
AliveSelect ==
    /\ pc = "alive.select"
    /\ \E o \in Oracles(DyingCalls) : \E c \in ReadyCases(Cur(o), AliveStreams) :
          ModeStep(modeAbideAliveLoop(Cur(o), c))
AliveOp ==
    /\ Returned("alive.op")
    /\ \E o \in Oracles({}) : ModeStep(AliveOpReturn(Cur(o)))
DyingResign ==
    /\ Returned("dying.resign")
    /\ \E o \in Oracles({}) : ModeStep(DyingResignReturn(Cur(o)))
DyingSelect ==
    /\ pc = "dying.select"
    /\ \E o \in Oracles({}) : \E c \in ReadyCases(Cur(o), DyingStreams) :
          ModeStep(DyingLoopCase(Cur(o), c))
DyingOp ==
    /\ Returned("dying.op")
    /\ \E o \in Oracles({}) : ModeStep(DyingOpReturn(Cur(o)))
TerminatingEntry ==
    AtEntry("Terminating") /\ \E o \in Oracles({"SetAgentStatus", "Watch"}) : ModeStep(ModeTerminating(Invoke(o)))
TerminatingSelect ==
    /\ pc = "terminating.select"
    /\ \E o \in Oracles({"Refresh", "HasSubordinates", "EnsureDead"}) : \E c \in ReadyCases(Cur(o), TerminatingStreams) :
          ModeStep(TerminatingCase(Cur(o), c))
TerminatingOp ==
    /\ Returned("terminating.op")
    /\ \E o \in Oracles({}) : ModeStep(TerminatingOpReturn(Cur(o)))
HookErrorEntry ==
    AtEntry("HookError") /\ \E o \in Oracles({"relations.Name", "SetAgentStatus"}) : ModeStep(ModeHookError(Invoke(o)))
HookErrorSelect ==
    /\ pc = "hookError.select"
    /\ \E o \in Oracles({}) : \E c \in ReadyCases(Cur(o), HookErrorStreams) :
          ModeStep(HookErrorCase(Cur(o), c))
HookErrorResolved ==
    /\ Returned("hookError.resolved")
    /\ \E o \in Oracles({"SetAgentStatus"}) : ModeStep(HookErrorResolvedReturn(Cur(o)))
HookErrorResign ==
    /\ Returned("hookError.resign")
    /\ \E o \in Oracles({"SetAgentStatus"}) : ModeStep(HookErrorResignReturn(Cur(o)))
ConflictedEntry ==
    AtEntry("Conflicted") /\ \E o \in Oracles({"SetAgentStatus"}) : ModeStep(ModeConflicted(Invoke(o)))
ConflictedSelect ==
    /\ pc = "conflicted.select"
    /\ \E o \in Oracles({}) : \E c \in ReadyCases(Cur(o), ConflictedStreams) :
          ModeStep(ConflictedCase(Cur(o), c))

(* --------------------------- the environment -------------------------- *)
\* The environment moves only while the running mode is where it can see
\* the move: an event, a cancellation or a tracker change that happens
\* earlier is not read before the mode reaches that place, so letting it
\* happen there covers the same behaviours.
SelectStreams ==
    CASE pc = "alive.select" -> AliveStreams
      [] pc = "dying.select" -> DyingStreams
      [] pc = "terminating.select" -> TerminatingStreams
      [] pc = "hookError.select" -> HookErrorStreams
      [] pc = "conflicted.select" -> ConflictedStreams
      [] OTHER -> {}

\* the streams deliver only what the mode has subscribed to
Deliverable(e) ==
    CASE Stream(e) = "upgrade" -> wantUpgrade # "none"
      [] Stream(e) = "resolved" -> wantResolved
      [] Stream(e) = "leaderSettings" -> wantLeaderSettings
      [] Stream(e) = "relationHook" -> hooksRunning /\ nRel > 0
      [] OTHER -> TRUE

EnvFrame ==
    UNCHANGED <<mode, modeCurl, pc, local, leaderElected, leaderDeposed, ret,
                claimed, before, exitErr, op, result, inflight, status, wantResolved,
                wantUpgrade, wantLeaderSettings, hooksRunning, relsDying, dead,
                opState, ranConfigChanged, ranLeaderSettingsChanged,
                leaderElection, nRel, resume, resigned,
                cliVars>>

\* an event becomes ready on a stream the waiting mode selects on
Deliver ==
    /\ Cardinality(ready) < MaxReady
    /\ \E e \in Events :
          /\ Stream(e) \in SelectStreams
          /\ Deliverable(e)
          /\ \A f \in ready : Stream(f) # Stream(e)
          /\ ready' = ready \cup {e}
    /\ UNCHANGED <<isLeader, tombDying, unitDying, hasSubs>>
    /\ EnvFrame

\* the leadership tracker's answer changes
TrackerChange ==
    /\ leaderElection
    /\ \/ AtEntry("Continue")
       \/ pc \in {"alive.select", "hookError.select"}
    /\ isLeader' = ~isLeader
    /\ UNCHANGED <<ready, tombDying, unitDying, hasSubs>>
    /\ EnvFrame

UnitBecomesDying ==
    /\ ~unitDying
    /\ AtEntry("Abide") \/ pc = "alive.select"
    /\ unitDying' = TRUE
    /\ UNCHANGED <<ready, isLeader, tombDying, hasSubs>>
    /\ EnvFrame

\* the subordinates the dying loop destroyed are gone
SubordinatesGone ==
    /\ hasSubs /\ pc \in {"dying.select", "terminating.select"}
    /\ hasSubs' = FALSE
    /\ UNCHANGED <<ready, isLeader, tombDying, unitDying>>
    /\ EnvFrame

Kill ==
    /\ ~tombDying /\ SelectStreams # {}
    /\ tombDying' = TRUE
    /\ UNCHANGED <<ready, isLeader, unitDying, hasSubs>>
    /\ EnvFrame

\* the agent process stops at any point (or has exited) and is started
\* again: everything in memory is lost, opState is as last persisted
Restart ==
    /\ ~dead
    /\ mode' = "Continue" /\ modeCurl' = NoCurl /\ pc' = "entry"
    /\ local' = NoLocal /\ leaderElected' = FALSE /\ leaderDeposed' = FALSE
    /\ ret' = NoRet /\ exitErr' = NilErr
    /\ claimed' = FALSE /\ before' = NoLocal
    /\ op' = NoOp /\ result' = "none" /\ inflight' = 0
    /\ wantResolved' = FALSE /\ wantUpgrade' = "none"
    /\ wantLeaderSettings' = FALSE
    /\ hooksRunning' = FALSE /\ relsDying' = FALSE /\ ready' = {}
    /\ ranConfigChanged' = FALSE /\ ranLeaderSettingsChanged' = FALSE
    /\ tombDying' = FALSE
    /\ resume' = IF opState.Kind = "RunHook" THEN Snapshot(opState) ELSE NoResume
    /\ UNCHANGED <<status, dead, opState, isLeader, leaderElection,
                   unitDying, hasSubs, nRel, resigned, cliVars>>

(* --------------------------- specification ---------------------------- *)
\* a new unit: the charm is to be installed, or nothing is recorded yet
InitialStates ==
    {State("Install", NoStep, NoHook, c, FALSE, FALSE) : c \in Curls}
    \cup {State("Continue", NoStep, NoHook, NoCurl, FALSE, FALSE)}

Init ==
    /\ mode = "Continue" /\ modeCurl = NoCurl /\ pc = "entry"
    /\ local = NoLocal /\ leaderElected = FALSE /\ leaderDeposed = FALSE
    /\ ret = NoRet /\ exitErr = NilErr
    /\ claimed = FALSE /\ before = NoLocal
    /\ op = NoOp /\ result = "none" /\ inflight = 0
    /\ status = NoStatus
    /\ wantResolved = FALSE /\ wantUpgrade = "none"
    /\ wantLeaderSettings = FALSE
    /\ hooksRunning = FALSE /\ relsDying = FALSE /\ dead = FALSE
    /\ ready = {}
    /\ opState \in InitialStates
    /\ ranConfigChanged = FALSE /\ ranLeaderSettingsChanged = FALSE
    /\ isLeader = FALSE
    /\ leaderElection \in BOOLEAN
    /\ tombDying = FALSE /\ unitDying = FALSE
    /\ hasSubs = TRUE
    /\ nRel = MaxRelations
    /\ resume = NoResume /\ resigned = FALSE
    /\ NoCli

Next ==
    \/ ContinueEntry \/ ContinueLeadership \/ ContinueAfter
    \/ InstallingEntry \/ UpgradingEntry
    \/ AbideEntry \/ AbideLeaderSettings
    \/ AliveSelect \/ AliveOp
    \/ DyingResign \/ DyingSelect \/ DyingOp
    \/ TerminatingEntry \/ TerminatingSelect \/ TerminatingOp
    \/ HookErrorEntry \/ HookErrorSelect \/ HookErrorResolved \/ HookErrorResign
    \/ ConflictedEntry \/ ConflictedSelect
    \/ ExecPrepare \/ ExecExecute \/ ExecCommit
    \/ Deliver \/ TrackerChange \/ UnitBecomesDying \/ SubordinatesGone
    \/ Kill \/ Restart

Spec == Init /\ [][Next]_vars

\* ModeContinue, ModeAbide and ModeTerminating are exported mode functions:
\* the states a caller may invoke them in, next to the states of a new unit;
\* among them a Kind outside the dispatch's cases and a RunHook with no Step
UnknownKind == "Unknown"
InvokedStates ==
    {State("RunHook", "Pending", h, NoCurl, FALSE, TRUE) :
        h \in {"config-changed", "stop"}}
    \cup {State("Continue", NoStep, h, NoCurl, FALSE, TRUE) :
            h \in {"config-changed", "stop"}}
    \cup {State("RunHook", NoStep, "config-changed", NoCurl, FALSE, TRUE),
          State(UnknownKind, NoStep, "config-changed", NoCurl, FALSE, TRUE)}

InitInvoke ==
    /\ mode \in {"Continue", "Abide", "Terminating"}
    /\ modeCurl = NoCurl /\ pc = "entry"
    /\ local = NoLocal /\ leaderElected = FALSE /\ leaderDeposed = FALSE
    /\ ret = NoRet /\ exitErr = NilErr
    /\ claimed = FALSE /\ before = NoLocal
    /\ op = NoOp /\ result = "none" /\ inflight = 0
    /\ status = NoStatus
    /\ wantResolved = FALSE /\ wantUpgrade = "none"
    /\ wantLeaderSettings = FALSE
    /\ hooksRunning = FALSE /\ relsDying = FALSE /\ dead = FALSE
    /\ ready = {}
    /\ opState \in InitialStates \cup InvokedStates
    /\ ranConfigChanged = FALSE /\ ranLeaderSettingsChanged = FALSE
    /\ isLeader = FALSE
    /\ leaderElection \in BOOLEAN
    /\ tombDying = FALSE /\ unitDying = FALSE
    /\ hasSubs = TRUE
    /\ nRel = MaxRelations
    /\ resume = NoResume /\ resigned = FALSE
    /\ NoCli

SpecInvoke == InitInvoke /\ [][Next]_vars

TypeOK ==
    /\ mode \in {"Continue", "Installing", "Upgrading", "Abide", "Terminating",
                 "HookError", "Conflicted", "Exited"}
    /\ opState.Kind \in Kinds
    /\ inflight \in 0..1
    /\ ready \subseteq Events

(* ------------------------------ claims -------------------------------- *)
\* the operation started by the step, if the step called runOperation
StartedOp == IF inflight' > inflight THEN op' ELSE NoOp
\* the step is a step of the mode function that is running
ModeMoves ==
    \/ ContinueEntry \/ ContinueLeadership \/ ContinueAfter
    \/ InstallingEntry \/ UpgradingEntry
    \/ AbideEntry \/ AbideLeaderSettings \/ AliveSelect \/ AliveOp
    \/ DyingResign \/ DyingSelect \/ DyingOp
    \/ TerminatingEntry \/ TerminatingSelect \/ TerminatingOp
    \/ HookErrorEntry \/ HookErrorSelect \/ HookErrorResolved \/ HookErrorResign
    \/ ConflictedEntry \/ ConflictedSelect
\* the step is the return of the running mode function to the hosting loop
ModeReturns == pc' \in {"entry", "exited"} /\ ret' # NoRet /\ ModeMoves
\* the mode returns the error of a call it made that failed, with no next mode
\* and without starting an operation
CallFailed(call) ==
    /\ ModeReturns /\ ret'.next = "nil" /\ ret'.err.cause = call
    /\ StartedOp = NoOp
HookPending(s) == s.Kind = "RunHook" /\ s.Step = "Pending"

\* C1: crash safety. After a (re)start that finds RunHook+Queued for hook H the
\* first hook operation started is run-hook(H); after one that finds
\* RunHook+Done for H it is skip-hook(H), so H is not executed again; with
\* Kind=Continue ModeContinue starts no hook operation at all. Installing and
\* Upgrading hand over to no mode but Continue, and the hook their operation
\* queued is then the first hook operation run.
CrashSafetyStep ==
    /\ (mode \in {"Installing", "Upgrading"} /\ ModeReturns
        /\ ret'.err = NilErr) => mode' = "Continue"
    /\ (mode = "Continue" /\ opState.Kind = "Continue" /\ ModeMoves)
         => StartedOp.kind \notin HookOpKinds
CrashSafetyState ==
    /\ (resume.Step = "Queued" /\ resume.first # "")
         => (resume.first = "runHook" /\ resume.firstHook = resume.Hook)
    /\ (resume.Step = "Done" /\ resume.first # "")
         => (resume.first = "skipHook" /\ resume.firstHook = resume.Hook)
CrashSafety == []CrashSafetyState /\ [][CrashSafetyStep]_vars
\* a restart found a queued hook and ModeContinue has started run-hook for it
CrashSafetyWitness ==
    /\ resume.Step = "Queued" /\ resume.first = "runHook"
    /\ mode = "Continue" /\ pc = "continueAfter" /\ inflight = 1
    /\ op = newRunHookOp(resume.Hook)

\* C2: with Kind=Install or Kind=Upgrade persisted, ModeContinue returns
\* Installing (resp. Upgrading) for the persisted CharmURL, starts no
\* operation, does not claim leadership and leaves opState as it is.
ResumptionIdempotence ==
    [][(ContinueEntry /\ opState.Kind \in {"Install", "Upgrade"})
        => /\ ret' = [from |-> "Continue",
                      next |-> IF opState.Kind = "Install"
                               THEN "Installing" ELSE "Upgrading",
                      curl |-> opState.CharmURL, err |-> NilErr]
           /\ mode' = ret'.next /\ modeCurl' = ret'.curl /\ pc' = "entry"
           /\ StartedOp = NoOp /\ inflight' = 0
           /\ ~claimed'
           /\ opState' = opState]_vars
\* Upgrading re-entered from Continue for the charm of an upgrade that had
\* been persisted and did not complete
ResumptionIdempotenceWitness ==
    /\ mode = "Upgrading" /\ pc = "entry" /\ ret.from = "Continue"
    /\ opState.Kind = "Upgrade" /\ modeCurl = opState.CharmURL
    /\ modeCurl \in Curls

\* C3: at most one operation is executing: runOperation is called only when
\* no call is outstanding.
OneOperationAtATime ==
    /\ [](inflight <= 1)
    /\ [][inflight' > inflight
           => (inflight = 0 /\ op.phase \in {"", "returned"})]_vars
\* an operation is executing in the alive loop while two more cases of its
\* select are ready
OneOperationAtATimeWitness ==
    /\ pc = "alive.op" /\ inflight = 1 /\ op.phase = "prepared"
    /\ tombDying /\ unitDying

\* C5: while opState is RunHook+Pending, ModeContinue starts no run-hook,
\* retry-hook or skip-hook operation, and the only modes that run after it are
\* Continue itself (after a leadership operation) and HookError.
HookErrorContainment ==
    [][(HookPending(opState) /\ mode = "Continue" /\ ModeMoves)
        => /\ StartedOp.kind \notin HookOpKinds
           /\ ModeReturns
                => /\ ret'.next \in {"HookError", "Continue", "nil"}
                   /\ ret'.next = "Continue"
                        => (ContinueLeadership /\ result = "ok")
                   /\ ret'.next = "nil" => ret'.err # NilErr]_vars
\* Continue has handed over to HookError with the failed hook pending
HookErrorContainmentWitness ==
    /\ mode = "HookError" /\ pc = "entry" /\ ret.from = "Continue"
    /\ ret.next = "HookError" /\ HookPending(opState)

\* C7: leadership convergence. In a ModeContinue pass that claims leadership,
\* claim true with Leader false starts accept-leadership, claim false with
\* Leader true starts resign-leadership, agreement starts no leadership
\* operation; the operation is started before any dispatch, nothing after it
\* in the pass is a leadership operation, and when it succeeds Leader is what
\* was claimed.
LeadershipConvergence ==
    [][/\ (ContinueEntry /\ claimed')
          => /\ (isLeader /\ ~opState.Leader)
                   => StartedOp = newAcceptLeadershipOp
             /\ (~isLeader /\ opState.Leader)
                   => StartedOp = newResignLeadershipOp
             /\ (isLeader = opState.Leader)
                   => StartedOp.kind \notin LeaderOpKinds
       /\ (ContinueEntry /\ ~claimed')
          => StartedOp.kind \notin LeaderOpKinds
       /\ ContinueLeadership
          => /\ StartedOp.kind \notin LeaderOpKinds
             /\ result = "ok"
                   => /\ opState.Leader = (op.kind = "acceptLeadership")
                      /\ opState.Leader # local.Leader
                      /\ mode' = "Continue" /\ StartedOp = NoOp]_vars
\* the accept-leadership operation of a Continue pass has succeeded
LeadershipConvergenceWitness ==
    /\ mode = "Continue" /\ pc = "leadership" /\ result = "ok"
    /\ op.kind = "acceptLeadership" /\ opState.Leader /\ ~local.Leader

AliveTaken == ready \ ready'
AliveTickets ==
    {t \in {"leaderElected"} : leaderElected /\ ~leaderElected'}
    \cup {t \in {"leaderDeposed"} : leaderDeposed /\ ~leaderDeposed'}
AliveOperationPerEvent ==
    [][/\ (AliveSelect /\ pc' = "alive.op")
          => /\ inflight = 0 /\ inflight' = 1 /\ op'.phase = "created"
             /\ ready' \subseteq ready
             /\ Cardinality(AliveTaken) + Cardinality(AliveTickets) = 1
             /\ \A e \in AliveTaken :
                   op' = AliveCreator([relsDying |-> relsDying], e)
             /\ \A t \in AliveTickets :
                   op' = AliveCreator([relsDying |-> relsDying], <<t, 0>>)
       /\ (AliveSelect /\ pc' # "alive.op")
          => /\ StartedOp.kind \in {"none", "resignLeadership"}
             /\ pc' # "alive.select"
             /\ \A e \in AliveTaken : pc' # "exited" => Stream(e) = "upgrade"
       /\ AliveOp
          => /\ StartedOp = NoOp
             /\ IF result = "ok"
                THEN pc' = "alive.select" /\ ready' = ready
                ELSE ModeReturns /\ ret'.err # NilErr]_vars
\* the operation of a leadership ticket is executing while an event that was
\* ready with it is still waiting
AliveOperationPerEventWitness ==
    /\ pc = "alive.op" /\ inflight = 1 /\ op.kind = "acceptLeadership"
    /\ ready # {}
\* C4 as stated: every event the alive loop takes starts an operation
AliveEveryEventRunsOperation ==
    [][(AliveSelect /\ ready' # ready /\ pc' # "exited")
        => (StartedOp # NoOp /\ pc' = "alive.op")]_vars

\* C6 as stated: ModeAbide and ModeTerminating invoked with RunHook+Pending
\* return a fatal error and change nothing.
RejectsPendingHook ==
    [][((AbideEntry \/ TerminatingEntry) /\ HookPending(opState))
        => /\ ModeReturns /\ ret'.next = "nil" /\ ret'.err # NilErr
           /\ status' = status /\ StartedOp = NoOp /\ dead' = dead
           /\ opState' = opState]_vars
\* ModeTerminating is waiting, status set, with a failed hook pending
RejectsPendingHookWitness ==
    /\ mode = "Terminating" /\ pc = "terminating.select"
    /\ HookPending(opState) /\ status.state = "stopping"

\* C8: with the unit dying ModeAbide never enters the alive loop; once the
\* stop hook is committed (Hook=stop, Kind=Continue) it stays the last hook,
\* no hook is run or retried again, and Abide is not entered again: Continue
\* hands over to Terminating.
StopCommitted(s) == s.Hook = "stop" /\ s.Kind \in {"Continue", "RunAction"}
OperationStateFrame ==
    /\ [][opState' # opState
           => (~ModeMoves /\ (ExecPrepare \/ ExecExecute \/ ExecCommit))]_vars
    /\ []((inflight = 0 /\ result # "none" /\ before # NoLocal)
            => IF result = "ok"
               THEN opState = Commit(op, Executed(op, Prepare(op, before)))
               ELSE opState \in {before, Prepare(op, before)})
\* a hook has failed in the alive loop and left RunHook+Pending behind
OperationStateFrameWitness ==
    /\ pc = "alive.op" /\ result = ErrHookFailed /\ inflight = 0
    /\ before.Kind = "Continue" /\ HookPending(opState)
\* C10 as stated: an operation that fails leaves opState unchanged
FailedOperationLeavesState ==
    (inflight = 0 /\ result \notin {"none", "ok"} /\ before # NoLocal)
        => opState = before

\* C11: the persisted Leader flag changes only in the step in which an
\* accept-leadership operation (false to true) or a resign-leadership
\* operation (true to false) commits with success; no step of a mode, no
\* other operation, no failed operation, no ticket, no tracker change and no
\* restart changes it.
LeaderFlagFrame ==
    [][opState'.Leader # opState.Leader
        => /\ ExecCommit /\ result' = "ok" /\ ~ModeMoves
           /\ op.kind \in LeaderOpKinds
           /\ opState'.Leader = (op.kind = "acceptLeadership")
           /\ opState' = [opState EXCEPT !.Leader = ~@]]_vars
\* the dying loop's resign-leadership has committed: Leader went from true
\* to false while the tracker still reports the unit as leader
LeaderFlagFrameWitness ==
    /\ pc = "dying.resign" /\ result = "ok" /\ op.kind = "resignLeadership"
    /\ before.Leader /\ ~opState.Leader /\ isLeader

\* C12: within the lifecycle of one hook (Kind stays RunHook, Hook stays the
\* same) Step only moves forward in the order Queued, Pending, Done, and it is
\* cleared when the hook's lifecycle ends: a queued hook that is run becomes
\* Pending, a pending hook that is retried stays Pending until it is Done, and
\* a hook that is Done is never Pending or Queued again.
SameHook == opState.Kind = "RunHook" /\ opState'.Kind = "RunHook"
            /\ opState'.Hook = opState.Hook
StepRank(st) == CASE st = "Queued" -> 1 [] st = "Pending" -> 2
                  [] st = "Done" -> 3 [] OTHER -> 4
StepMonotone ==
    [][/\ SameHook => StepRank(opState'.Step) >= StepRank(opState.Step)
       /\ (opState.Kind = "RunHook" /\ opState'.Kind # "RunHook")
             => opState'.Step = NoStep
       /\ (opState.Kind = "RunHook" /\ opState.Step = "Done"
           /\ opState'.Kind # "RunHook")
             => (opState'.Kind = "Continue" /\ opState'.Hook = opState.Hook)
      ]_vars
\* a queued hook was run by ModeContinue and failed: its Step went from Queued
\* to Pending
StepMonotoneWitness ==
    /\ pc = "continueAfter" /\ mode = "Continue" /\ result = ErrHookFailed
    /\ before.Kind = "RunHook" /\ before.Step = "Queued"
    /\ HookPending(opState) /\ opState.Hook = before.Hook
\* C12 as stated: Step never moves against the order Pending, Queued, Done
StatedStepRank(st) == CASE st = "Pending" -> 1 [] st = "Queued" -> 2
                        [] st = "Done" -> 3 [] OTHER -> 4
StepNeverBackToPending ==
    [][SameHook
        => StatedStepRank(opState'.Step) >= StatedStepRank(opState.Step)]_vars

\* C13 as stated: cancellation has priority. When the tomb is dying and the
\* mode takes a case of one of its selects, the case taken is the
\* cancellation: the mode returns ErrDying, consumes no ready event and starts
\* no operation.
SelectPcs == {"alive.select", "dying.select", "terminating.select",
              "hookError.select", "conflicted.select"}
CancellationPreempts ==
    [][(tombDying /\ pc \in SelectPcs /\ ModeMoves)
        => /\ ModeReturns /\ ret'.next = "nil"
           /\ ret'.err.cause = ErrDying
           /\ ready' = ready \/ pc' = "exited"
           /\ StartedOp = NoOp]_vars
\* the alive loop has taken an event and started its operation although the
\* tomb was already dying when it selected
CancellationPreemptsWitness ==
    /\ pc = "alive.op" /\ tombDying /\ inflight = 1 /\ op.phase = "created"
    /\ op.kind = "runHook" /\ op.hook = "config-changed"

\* C14: cancellation is always fatal. Every select of Terminating, the alive
\* loop, the dying loop, HookError and Conflicted has the cancellation case,
\* which can proceed whenever the tomb is dying; when it is the case taken the
\* mode returns ErrDying with no next mode, starts no operation, changes no
\* persisted state and does not wait again. A mode returns ErrDying in no
\* other way.
SelectCase(m, c) ==
    CASE pc = "alive.select" -> modeAbideAliveLoop(m, c)
      [] pc = "dying.select" -> DyingLoopCase(m, c)
      [] pc = "terminating.select" -> TerminatingCase(m, c)
      [] pc = "hookError.select" -> HookErrorCase(m, c)
      [] OTHER -> ConflictedCase(m, c)
TakesCancellation ==
    /\ tombDying /\ pc \in SelectPcs
    /\ ready' \subseteq ready /\ UNCHANGED envVars
    /\ \E o \in Oracles({}) : ModeStep(SelectCase(Cur(o), Tomb))
CancellationFatal ==
    /\ [](pc \in SelectPcs
            => /\ "tomb" \in SelectStreams
               /\ tombDying
                    => Tomb \in ReadyCases([leaderElected |-> leaderElected,
                                            leaderDeposed |-> leaderDeposed,
                                            ready |-> ready], SelectStreams))
    /\ [][TakesCancellation
           => /\ ModeReturns /\ ret'.from = mode /\ ret'.next = "nil"
              /\ ret'.err.cause = ErrDying
              /\ pc' \notin SelectPcs
              /\ StartedOp = NoOp /\ inflight' = 0
              /\ opState' = opState /\ status' = status /\ dead' = dead
          ]_vars
    /\ [][(ret'.err.cause = ErrDying /\ ModeReturns) => TakesCancellation]_vars
\* HookError was cancelled at its select: it returned ErrDying and the failed
\* hook is still pending
CancellationFatalWitness ==
    /\ pc = "exited" /\ ret.from = "HookError" /\ ret.next = "nil"
    /\ ret.err.cause = ErrDying /\ HookPending(opState) /\ tombDying

\* C15 as stated: mode transitions are total. Every invocation of a mode that
\* ends yields a next mode or an error, never neither and never a crash of
\* the mode function.
ModeTransitionsTotal ==
    [][ModeReturns
        => /\ ret'.next # "nil" \/ ret'.err # NilErr
           /\ ret'.err.cause # "panic"]_vars
\* ModeContinue was invoked with Kind=Continue and no hook recorded and ended
\* in a nil dereference
ModeTransitionsTotalWitness ==
    /\ pc = "exited" /\ ret.from = "Continue" /\ ret.err.cause = "panic"
    /\ opState.Kind = "Continue" /\ opState.Hook = NoHook

\* C16 as stated: for a Kind outside its dispatch, and for Kind=RunHook with a
\* Step other than Pending, Queued and Done, ModeContinue returns a fatal
\* error and starts no operation.
Uncovered(s) ==
    \/ s.Kind \notin Kinds
    \/ s.Kind = "RunHook" /\ s.Step \notin Steps
RejectsUncoveredState ==
    [][(Uncovered(opState) /\ ContinueEntry)
        => /\ ModeReturns /\ ret'.next = "nil"
           /\ ret'.err # NilErr /\ ret'.err.cause # "panic"
           /\ StartedOp = NoOp]_vars
\* ModeContinue was invoked with RunHook and no Step: it passed a nil creator
\* to continueAfter
RejectsUncoveredStateWitness ==
    /\ pc = "exited" /\ ret.from = "Continue" /\ ret.err.cause = "panic"
    /\ opState.Kind = "RunHook" /\ opState.Step = NoStep
    /\ opState.Hook # NoHook
\* ModeContinue was invoked with an unknown Kind while the tracker claimed
\* leadership: it has started accept-leadership before its dispatch
RejectsUnknownKindWitness ==
    /\ mode = "Continue" /\ pc = "leadership" /\ inflight = 1
    /\ op.kind = "acceptLeadership" /\ opState.Kind = UnknownKind

\* C17: ModeContinue invoked with RunHook+Queued for hook H and leadership up
\* to date starts run-hook(H) and nothing else; when the operation has
\* returned the mode starts no further operation; when it succeeded the
\* persisted state is Kind=Continue with hook H and the mode returns Continue.
LeadershipUpToDate == ~leaderElection \/ isLeader = opState.Leader
QueuedHookIsRun ==
    [][/\ (opState.Kind = "RunHook" /\ opState.Step = "Queued"
           /\ LeadershipUpToDate /\ ContinueEntry)
          => \/ CallFailed("initializeMetricsCollector")
             \/ /\ StartedOp = newRunHookOp(opState.Hook)
                /\ inflight = 0 /\ inflight' = 1 /\ pc' = "continueAfter"
                /\ mode' = "Continue" /\ opState' = opState
       /\ (mode = "Continue" /\ op.kind = "runHook" /\ ContinueAfter)
          => /\ StartedOp = NoOp /\ ModeReturns
             /\ result = "ok"
                  => /\ opState.Kind = "Continue" /\ opState.Step = NoStep
                     /\ opState.Hook = op.hook
                     /\ ret'.next = "Continue" /\ ret'.err = NilErr
                     /\ mode' = "Continue"
             /\ result # "ok" => (ret'.next = "nil" /\ ret'.err # NilErr)
      ]_vars
\* the upgrade-charm hook that an upgrade queued was run by ModeContinue and
\* has succeeded
QueuedHookIsRunWitness ==
    /\ mode = "Continue" /\ pc = "continueAfter" /\ result = "ok"
    /\ op.kind = "runHook" /\ op.hook = "upgrade-charm"
    /\ before.Kind = "RunHook" /\ before.Step = "Queued"
    /\ opState.Kind = "Continue" /\ opState.Hook = "upgrade-charm"

\* C18: in HookError for the failed hook H, a retry-hooks command starts
\* retry-hook(H) and a no-hooks command starts skip-hook(H), one operation for
\* the one command taken; when the operation has returned the mode starts no
\* other: on success it returns Continue, on a hook failure it stays in
\* HookError and sets status error for H again before it selects again, on
\* any other failure it returns that error and no next mode.
ResolvedTaken == {e \in ready \ ready' : Stream(e) = "resolved"}
HookErrorResolution ==
    [][/\ (pc' = "hookError.resolved" /\ HookErrorSelect)
          => /\ local.Hook = opState.Hook /\ HookPending(opState)
             /\ inflight = 0 /\ inflight' = 1
             /\ ready' \subseteq ready /\ Cardinality(ready \ ready') = 1
             /\ \E rm \in {ResolvedRetryHooks, ResolvedNoHooks} :
                   /\ ResolvedTaken = {<<"resolved", rm>>}
                   /\ StartedOp = IF rm = ResolvedRetryHooks
                                  THEN newRetryHookOp(local.Hook)
                                  ELSE newSkipHookOp(local.Hook)
       /\ (pc' \notin {"hookError.resolved", "exited"} /\ HookErrorSelect)
          => (ResolvedTaken = {} /\ StartedOp.kind \notin HookOpKinds)
       /\ HookErrorResolved
          => /\ StartedOp = NoOp
             /\ result = "ok"
                  => /\ ModeReturns /\ ret'.next = "Continue"
                     /\ ret'.err = NilErr /\ mode' = "Continue"
             /\ result = ErrHookFailed
                  => \/ CallFailed("SetAgentStatus")
                     \/ /\ ~ModeReturns /\ mode' = "HookError"
                        /\ pc' = "hookError.select" /\ local' = local
                        /\ status' = [state |-> "error", hook |-> local.Hook]
                        /\ HookPending(opState) /\ opState.Hook = local.Hook
             /\ result \notin {"ok", ErrHookFailed}
                  => /\ ModeReturns /\ ret'.next = "nil"
                     /\ ret'.err.cause = result
      ]_vars
\* the retry of the failed install hook has failed again: the operation left
\* status active and HookError is about to set it to error again
HookErrorResolutionWitness ==
    /\ mode = "HookError" /\ pc = "hookError.resolved"
    /\ result = ErrHookFailed /\ op.kind = "retryHook" /\ op.hook = "install"
    /\ local.Hook = "install" /\ status.state = "active"

\* C19: an invocation of Conflicted(curl) takes one case of its select and
\* does not select again. A forced-upgrade event for charm new starts
\* revert-upgrade(new), also when new is not curl; a resolution command starts
\* resolved-upgrade(curl); that operation is the only one of the invocation.
\* When it has returned the mode returns Continue if it succeeded and its
\* error, with no next mode, if it failed.
ConflictedOneOperation ==
    [][/\ (pc' = "continueAfter" /\ ConflictedSelect)
          => /\ inflight = 0 /\ inflight' = 1 /\ modeCurl' = modeCurl
             /\ ready' \subseteq ready /\ Cardinality(ready \ ready') = 1
             /\ \A e \in ready \ ready' :
                   IF Stream(e) = "upgrade"
                   THEN StartedOp = newRevertUpgradeOp(e[2])
                   ELSE /\ Stream(e) = "resolved"
                        /\ StartedOp = newResolvedUpgradeOp(modeCurl)
       /\ (pc' # "continueAfter" /\ ConflictedSelect)
          => /\ tombDying /\ StartedOp = NoOp /\ ModeReturns
             /\ ret'.next = "nil" /\ ret'.err.cause = ErrDying
       /\ ConflictedEntry
          => \/ pc' = "conflicted.select" /\ StartedOp = NoOp
             \/ CallFailed("SetAgentStatus")
       /\ (mode = "Conflicted" /\ ContinueAfter)
          => /\ StartedOp = NoOp /\ ModeReturns /\ ret'.from = "Conflicted"
             /\ op.kind \in {"revertUpgrade", "resolvedUpgrade"}
             /\ result = "ok" => (ret'.next = "Continue" /\ ret'.err = NilErr)
             /\ result # "ok" => (ret'.next = "nil" /\ ret'.err.cause = result)
      ]_vars
\* Conflicted for one charm has taken a forced upgrade to another charm and
\* is reverting to that other charm
ConflictedOneOperationWitness ==
    /\ mode = "Conflicted" /\ pc = "continueAfter" /\ inflight = 1
    /\ modeCurl \in Curls /\ op.kind = "revertUpgrade"
    /\ op.curl \in Curls /\ op.curl # modeCurl

\* C20: interrupted work is committed, not repeated. With Kind=RunAction, or
\* RunHook+Done, persisted, ModeContinue starts no run-action, run-hook or
\* retry-hook operation; its dispatch (reached at once when leadership is up
\* to date, or after a leadership operation that could not be accepted) starts
\* skip-hook for the persisted hook; when that operation has returned the mode
\* starts nothing more, and on success the state is Kind=Continue with that
\* hook and the mode returns Continue.
Interrupted(s) ==
    s.Kind = "RunAction" \/ (s.Kind = "RunHook" /\ s.Step = "Done")
InterruptedWorkCommitted ==
    [][/\ (Interrupted(opState) /\ mode = "Continue" /\ ModeMoves)
          => StartedOp.kind \notin {"action", "runHook", "retryHook"}
       /\ (Interrupted(opState) /\ LeadershipUpToDate /\ ContinueEntry)
          => \/ CallFailed("initializeMetricsCollector")
             \/ /\ StartedOp = newSkipHookOp(opState.Hook)
                /\ opState.Hook # NoHook
                /\ inflight = 0 /\ inflight' = 1 /\ pc' = "continueAfter"
       /\ (Interrupted(opState) /\ result = ErrCannotAcceptLeadership
           /\ ContinueLeadership)
          => StartedOp = newSkipHookOp(opState.Hook)
       /\ (mode = "Continue" /\ op.kind = "skipHook" /\ ContinueAfter)
          => /\ StartedOp = NoOp /\ ModeReturns
             /\ result = "ok"
                  => /\ ret'.next = "Continue" /\ ret'.err = NilErr
                     /\ opState.Kind = "Continue" /\ opState.Hook = op.hook
             /\ result # "ok" => (ret'.next = "nil" /\ ret'.err # NilErr)
      ]_vars
\* an action was interrupted by a restart; ModeContinue has committed the
\* hook recorded with it by a skip-hook operation
InterruptedWorkCommittedWitness ==
    /\ mode = "Continue" /\ pc = "continueAfter" /\ result = "ok"
    /\ op.kind = "skipHook" /\ before.Kind = "RunAction"
    /\ opState.Kind = "Continue" /\ opState.Hook = op.hook

\* C21: when Continue's leadership operation fails with
\* ErrCannotAcceptLeadership, Continue starts no leadership operation again
\* in that pass and dispatches on the operation state it read at entry, which
\* is unchanged: the dispatch's own outcome, with no error from the failure.
\* When the leadership operation fails with any other error Continue returns
\* that error and starts nothing. In every other mode
\* ErrCannotAcceptLeadership is returned as the mode's error.
CannotAcceptSwallowedInContinue ==
    [][/\ (result = ErrCannotAcceptLeadership /\ local.Hook # NoHook
           /\ ContinueLeadership)
          => /\ opState = local /\ opState' = opState
             /\ StartedOp.kind \notin LeaderOpKinds
             /\ ModeReturns => ret'.err = NilErr
             /\ HookPending(opState)
                  => (ret'.next = "HookError" /\ StartedOp = NoOp)
             /\ (opState.Kind = "RunHook" /\ opState.Step = "Queued")
                  => StartedOp = newRunHookOp(opState.Hook)
             /\ Interrupted(opState)
                  => StartedOp = newSkipHookOp(opState.Hook)
             /\ opState.Kind = "Continue"
                  => /\ StartedOp = NoOp
                     /\ ret'.next = IF opState.Hook = "stop"
                                    THEN "Terminating" ELSE "Abide"
       /\ (result \notin {"none", "ok", ErrCannotAcceptLeadership}
           /\ ContinueLeadership)
          => /\ ModeReturns /\ ret'.next = "nil" /\ ret'.err.cause = result
             /\ StartedOp = NoOp /\ opState' = opState
       /\ (result = ErrCannotAcceptLeadership /\ mode # "Continue"
           /\ ModeMoves)
          => /\ ModeReturns /\ ret'.next = "nil"
             /\ ret'.err.cause = ErrCannotAcceptLeadership
             /\ StartedOp = NoOp
      ]_vars
\* Continue's accept-leadership was refused while a queued hook is
\* outstanding
CannotAcceptSwallowedInContinueWitness ==
    /\ mode = "Continue" /\ pc = "leadership"
    /\ result = ErrCannotAcceptLeadership /\ op.kind = "acceptLeadership"
    /\ opState.Kind = "RunHook" /\ opState.Step = "Queued"
\* the alive loop's accept-leadership was refused and the mode returned the
\* refusal as its error
CannotAcceptFatalInAliveLoop ==
    /\ pc = "exited" /\ ret.from = "Abide" /\ ret.next = "nil"
    /\ ret.err.cause = ErrCannotAcceptLeadership

\* C22: ModeTerminating returns no next mode, and an error whenever it
\* returns. It returns ErrTerminateAgent only from the step that took a
\* unit-change notification while the unit had no subordinates, and that step
\* marked the unit dead. The unit is marked dead by no other step. A
\* unit-change notification taken while the unit has subordinates leaves the
\* unit not dead and the mode at its select, unless Refresh or
\* HasSubordinates failed and the mode returns that error.
UnitChange == <<"unitChange", 0>>
UnitChangeTaken ==
    /\ mode = "Terminating" /\ pc = "terminating.select"
    /\ UnitChange \in ready /\ UnitChange \notin ready'
    /\ \E o \in Oracles({"Refresh", "HasSubordinates", "EnsureDead"}) :
          ModeStep(TerminatingCase(Cur(o), UnitChange))
TerminatingExits ==
    [][/\ (mode = "Terminating" /\ ModeReturns)
          => /\ ret'.from = "Terminating" /\ ret'.next = "nil"
             /\ ret'.err # NilErr
             /\ ret'.err.cause = ErrTerminateAgent
                  => /\ UnitChangeTaken /\ ~hasSubs /\ ~dead /\ dead'
       /\ dead' # dead
          => /\ (Restart \/ (mode = "Terminating" /\ ModeReturns))
             /\ dead' => (ret'.err.cause = ErrTerminateAgent /\ ~hasSubs)
       /\ (hasSubs /\ UnitChangeTaken)
          => /\ ~dead'
             /\ \/ pc' = "terminating.select" /\ mode' = "Terminating"
                \/ CallFailed("Refresh") \/ CallFailed("HasSubordinates")
      ]_vars
\* ModeTerminating has marked the unit dead, with no subordinates left, and
\* the mode loop has ended with the terminate-agent signal
TerminatingExitsWitness ==
    /\ mode = "Exited" /\ ret.from = "Terminating" /\ dead /\ ~hasSubs
    /\ exitErr.cause = ErrTerminateAgent /\ status.state = "stopping"
\* ModeTerminating is waiting with the unit's subordinates still there
TerminatingWaitsWitness ==
    /\ mode = "Terminating" /\ pc = "terminating.select" /\ hasSubs
    /\ ~dead /\ UnitChange \in ready

\* C23: when runOperation has handed a mode an error that the mode does not
\* recover from (every error but ErrCannotAcceptLeadership at Continue's
\* leadership operation and ErrHookFailed at HookError's resolution
\* operation), the mode's next step returns: no next mode, the error with the
\* same cause (and, for a deploy conflict, the same charm), annotated with the
\* name of the mode, and no operation started.
Recovered ==
    \/ mode = "Continue" /\ pc = "leadership"
       /\ result = ErrCannotAcceptLeadership
    \/ mode = "HookError" /\ pc = "hookError.resolved"
       /\ result = ErrHookFailed
NoRetryNoMasking ==
    [][(result \notin {"none", "ok"} /\ ~Recovered /\ ModeMoves)
        => /\ ModeReturns /\ StartedOp = NoOp /\ inflight' = 0
           /\ ret'.from = mode /\ ret'.next = "nil"
           /\ ret'.err.cause = result /\ ret'.err.note = mode
           /\ ret'.err.curl = (IF result = "Conflict" THEN op.curl ELSE NoCurl)
           /\ opState' = opState]_vars
\* an operation of the alive loop failed with an error that is not a hook
\* failure, and the mode loop has ended with that error, annotated by ModeAbide
NoRetryNoMaskingWitness ==
    /\ mode = "Exited" /\ ret.from = "Abide" /\ ret.next = "nil"
    /\ ret.err = [cause |-> "other", note |-> "Abide", curl |-> NoCurl]
    /\ exitErr = ret.err

\* C27 as stated: ModeContinue invoked with Kind=Continue and leadership up to
\* date starts no operation and returns Terminating when the last hook is
\* stop and Abide otherwise, also when no hook has been recorded yet (or it
\* returns the error of initializeMetricsCollector).
ContinueWithoutWork ==
    [][(opState.Kind = "Continue" /\ LeadershipUpToDate /\ ContinueEntry)
        => \/ CallFailed("initializeMetricsCollector")
           \/ /\ StartedOp = NoOp /\ ModeReturns /\ ret'.err = NilErr
              /\ ret'.next = IF opState.Hook = "stop" THEN "Terminating"
                             ELSE "Abide"
              /\ mode' = ret'.next]_vars
\* the freshly bootstrapped unit: ModeContinue read Kind=Continue with no hook
\* recorded, ran no leadership operation, and ended in a nil dereference
ContinueWithoutWorkWitness ==
    /\ pc = "exited" /\ ret.from = "Continue" /\ ret.err.cause = "panic"
    /\ opState = State("Continue", NoStep, NoHook, NoCurl, FALSE, FALSE)
    /\ ~isLeader /\ status = NoStatus
\* the same with a hook recorded, which holds
ContinueWithoutWorkAfterHook ==
    [][(opState.Kind = "Continue" /\ opState.Hook # NoHook
        /\ LeadershipUpToDate /\ ContinueEntry)
        => \/ CallFailed("initializeMetricsCollector")
           \/ /\ StartedOp = NoOp /\ ModeReturns /\ ret'.err = NilErr
              /\ ret'.next = IF opState.Hook = "stop" THEN "Terminating"
                             ELSE "Abide"
              /\ mode' = ret'.next]_vars

\* C28: ModeInstalling(curl) either returns the error of SetAgentStatus,
\* leaving the status and starting nothing, or sets status installing and
\* starts the install operation for curl in the same step; ModeUpgrading(curl)
\* starts the upgrade operation for curl. Neither starts another operation.
\* When the operation has returned each returns Continue if it succeeded and
\* otherwise no next mode and the operation's error. While the install
\* operation has not begun the status is installing.
InstallUpgradeOnce ==
    /\ [][/\ InstallingEntry
             => \/ CallFailed("SetAgentStatus") /\ status' = status
                \/ /\ status' = [state |-> "installing", hook |-> NoHook]
                   /\ StartedOp = newInstallOp(modeCurl)
                   /\ inflight = 0 /\ inflight' = 1
                   /\ mode' = "Installing" /\ pc' = "continueAfter"
          /\ UpgradingEntry
             => /\ StartedOp = newUpgradeOp(modeCurl) /\ status' = status
                /\ inflight = 0 /\ inflight' = 1
                /\ mode' = "Upgrading" /\ pc' = "continueAfter"
          /\ (mode \in {"Installing", "Upgrading"} /\ pc # "entry"
              /\ ModeMoves)
             => /\ ContinueAfter /\ StartedOp = NoOp /\ ModeReturns
                /\ op = [(IF mode = "Installing" THEN newInstallOp(modeCurl)
                          ELSE newUpgradeOp(modeCurl))
                            EXCEPT !.phase = "returned"]
                /\ result = "ok"
                     => /\ ret'.next = "Continue" /\ ret'.err = NilErr
                        /\ mode' = "Continue"
                /\ result # "ok"
                     => /\ ret'.next = "nil" /\ ret'.err.cause = result
                        /\ mode' # "Continue"
         ]_vars
    /\ []((mode = "Installing" /\ pc = "continueAfter"
           /\ op.phase = "created")
            => status = [state |-> "installing", hook |-> NoHook])
\* the install operation for a charm has succeeded after status installing
\* was set, and Installing has handed over to Continue
InstallUpgradeOnceWitness ==
    /\ mode = "Continue" /\ pc = "entry" /\ ret.from = "Installing"
    /\ ret.next = "Continue" /\ ret.err = NilErr
    /\ status.state = "installing" /\ opState.Kind = "RunHook"
    /\ opState.Hook = "install" /\ opState.Step = "Queued"
\* SetAgentStatus failed in Installing: no operation, the mode loop has ended
InstallStatusFailedWitness ==
    /\ mode = "Exited" /\ ret.from = "Installing"
    /\ ret.err.cause = "SetAgentStatus" /\ status = NoStatus
    /\ opState.Kind = "Install" /\ op = NoOp
\* the upgrade operation of Upgrading has succeeded
UpgradeOnceWitness ==
    /\ mode = "Continue" /\ pc = "entry" /\ ret.from = "Upgrading"
    /\ ret.next = "Continue" /\ ret.err = NilErr

\* C29: Abide's start-up order. A step of ModeAbide taken while config-changed
\* has not run in this process, or while Started is false, leaves the status,
\* the relation hook feed and the ready events alone, subscribes to no
\* upgrade events and reaches no loop: it returns an error without an operation, or
\* runs leader-settings-changed first, or starts exactly config-changed when
\* config-changed has not run (whatever Started is) and exactly start
\* otherwise, the unit dying or not. That operation is the mode's last: Abide
\* returns Continue when it succeeds and its error otherwise. An event is taken
\* by the alive or the dying loop only with config-changed run and Started.
AbideStepsToLoop == AbideEntry \/ AbideLeaderSettings
AbideStartupOrder ==
    /\ [][ /\ (AbideStepsToLoop /\ ~(ranConfigChanged /\ opState.Started))
              => /\ UNCHANGED <<status, hooksRunning>>
                 /\ pc' # "exited" => ready' = ready
                 /\ wantUpgrade' \in {wantUpgrade, "none"}
                 /\ pc' \notin {"alive.select", "dying.select", "dying.resign"}
                 /\ \/ /\ ModeReturns /\ ret'.next = "nil"
                       /\ ret'.err # NilErr /\ StartedOp = NoOp
                    \/ /\ AbideEntry /\ pc' = "abide.leaderSettings"
                       /\ StartedOp = newSimpleRunHookOp(LeaderSettingsChanged)
                    \/ /\ pc' = "continueAfter" /\ mode' = "Abide"
                       /\ inflight = 0 /\ inflight' = 1
                       /\ StartedOp = newSimpleRunHookOp(
                              IF ~ranConfigChanged THEN "config-changed"
                              ELSE "start")
           /\ (mode = "Abide" /\ ContinueAfter
                  /\ op.hook \in {"config-changed", "start"})
              => /\ ModeReturns /\ StartedOp = NoOp
                 /\ result = "ok" => (ret'.next = "Continue" /\ ret'.err = NilErr)
                 /\ result # "ok" => (ret'.next = "nil" /\ ret'.err.cause = result)
           /\ (AliveSelect \/ DyingSelect)
              => (ranConfigChanged /\ opState.Started)
          ]_vars
    /\ []((mode = "Abide" /\ pc \in {"alive.select", "dying.select"})
            => (ranConfigChanged /\ opState.Started /\ status.state = "active"
                /\ wantUpgrade = "any"))
\* the dying unit's Abide is running config-changed, start still to come
AbideStartupOrderWitness ==
    /\ mode = "Abide" /\ pc = "continueAfter" /\ unitDying
    /\ op = newSimpleRunHookOp("config-changed")
    /\ ~ranConfigChanged /\ ~opState.Started /\ status.state # "active"
\* ... Abide is running start, config-changed having run
AbideRunsStartWitness ==
    /\ mode = "Abide" /\ pc = "continueAfter" /\ ranConfigChanged
    /\ op = newSimpleRunHookOp("start") /\ ~opState.Started
\* ... and Abide has returned Continue after start, which set Started
AbideStartedWitness ==
    /\ mode = "Continue" /\ pc = "entry" /\ ret.from = "Abide"
    /\ ret.next = "Continue" /\ opState.Started /\ opState.Hook = "start"
    /\ ranConfigChanged

\* C30: the alive loop's table. The case the select takes fixes what the loop
\* does next: the eleven operation cases start exactly the operation of the
\* table below, with nothing executing before, and use up that one event or
\* ticket and nothing else; an upgrade event returns Upgrading for its URL and
\* cancellation returns ErrDying, both with no operation (ModeAbide's deferred
\* StopHooks may add its error to the Upgrading it returns); the unit-dying case
\* hands over to modeAbideDyingLoop, the alive loop itself running nothing for
\* it. The loop comes back to its select only from an operation that has
\* returned, so no event is taken while an operation is executing.
AliveCases ==
    {Tomb, UnitDying, LeaderElected, LeaderDeposed}
    \cup {e \in Events : Stream(e) \in AliveStreams}
AliveTakes(c) ==
    /\ pc = "alive.select"
    /\ \E o \in Oracles(DyingCalls) :
          /\ c \in ReadyCases(Cur(o), AliveStreams)
          /\ ModeStep(modeAbideAliveLoop(Cur(o), c))
AliveTable ==
    [relations |-> <<"updateRelations", NoHook>>,
     action |-> <<"action", NoHook>>,
     storage |-> <<"updateStorage", NoHook>>,
     config |-> <<"runHook", "config-changed">>,
     meterStatus |-> <<"runHook", "meter-status-changed">>,
     collectMetrics |-> <<"runHook", "collect-metrics">>,
     relationHook |-> <<"runHook", "relation-changed">>,
     storageHook |-> <<"runHook", "storage-attached">>,
     leaderElected |-> <<"acceptLeadership", NoHook>>,
     leaderDeposed |-> <<"resignLeadership", NoHook>>,
     leaderSettings |-> <<"runHook", "leader-settings-changed">>]
AliveEventMapping ==
    /\ [][ /\ \A c \in AliveCases :
                AliveTakes(c) =>
                   CASE c = Tomb ->
                          /\ ModeReturns /\ StartedOp = NoOp
                          /\ ret'.next = "nil" /\ ret'.err.cause = ErrDying
                     [] c = UnitDying ->
                          /\ mode' \in {"Abide", "Exited"}
                          /\ pc' \in {"dying.select", "dying.resign",
                                      "continueAfter", "exited"}
                          /\ pc' = "dying.select" => StartedOp = NoOp
                          /\ pc' = "dying.resign"
                                => StartedOp = newResignLeadershipOp
                          /\ pc' = "continueAfter"
                                => StartedOp = newSimpleRunHookOp("stop")
                          /\ pc' = "exited"
                                => \E call \in DyingCalls : CallFailed(call)
                          /\ pc' # "exited" => ready' = ready
                     [] Stream(c) = "upgrade" ->
                          /\ ModeReturns /\ StartedOp = NoOp
                          /\ ret'.next = "Upgrading" /\ ret'.curl = c[2]
                          /\ \/ /\ ret'.err = NilErr
                                /\ mode' = "Upgrading" /\ modeCurl' = c[2]
                             \/ ret'.err.cause = "StopHooksFailed"
                     [] OTHER ->
                          /\ pc' = "alive.op" /\ mode' = "Abide"
                          /\ inflight = 0 /\ inflight' = 1
                          /\ op = NoOp /\ op'.phase = "created"
                          /\ <<op'.kind, op'.hook>> = AliveTable[Stream(c)]
                          /\ op'.curl = NoCurl
                          /\ ready' = ready \ {c}
                          /\ leaderElected' = (leaderElected /\ c # LeaderElected)
                          /\ leaderDeposed' = (leaderDeposed /\ c # LeaderDeposed)
                          /\ UNCHANGED <<status, wantUpgrade, hooksRunning>>
           /\ (ModeMoves /\ pc' = "alive.select" /\ pc = "alive.op")
                => (AliveOp /\ op.phase = "returned" /\ result = "ok"
                    /\ ready' = ready /\ StartedOp = NoOp)
          ]_vars
    /\ [](pc = "alive.select" => (inflight = 0 /\ op = NoOp))
\* collect-metrics is executing for the metrics timer while the leadership
\* ticket has fired and has to wait
AliveEventMappingWitness ==
    /\ mode = "Abide" /\ pc = "alive.op" /\ inflight = 1
    /\ op.kind = "runHook" /\ op.hook = "collect-metrics"
    /\ op.phase = "prepared" /\ leaderElected /\ isLeader
\* the alive loop has returned Upgrading for an upgrade event
AliveUpgradeWitness ==
    /\ mode = "Upgrading" /\ pc = "entry" /\ ret.from = "Abide"
    /\ ret.next = "Upgrading" /\ ret.curl = modeCurl /\ modeCurl \in Curls
    /\ opState.Kind = "Continue" /\ opState.Started

\* C31: the dying loop. Abide starts the stop hook only with no relation left,
\* the relations marked dying and, with leadership on, the persisted Leader
\* false; the resign-leadership operation of the prelude is started only with
\* the relations marked dying, and a failed Refresh, DestroyAllSubordinates
\* or SetDying leaves them unmarked and starts nothing. With relations left,
\* a step of the select either returns ErrDying or takes exactly one action,
\* config, leader-settings or relation hook event and starts its operation:
\* events of other streams stay where they are, no leadership ticket is armed,
\* and the loop goes on to its own select, to the stop hook or out of the mode
\* with an error, never to the alive loop and never to Upgrading.
DyingPcs == {"dying.select", "dying.resign", "dying.op"}
DyingTable ==
    [action |-> <<"action", NoHook>>,
     config |-> <<"runHook", "config-changed">>,
     leaderSettings |-> <<"runHook", "leader-settings-changed">>,
     relationHook |-> <<"runHook", "relation-broken">>]
DyingIgnoresUpgradeWitness ==
    /\ mode = "Abide" /\ pc = "dying.select" /\ nRel > 0
    /\ \E e \in ready : Stream(e) = "upgrade"

\* C32 as stated: once the dying loop's resign-leadership operation has
\* succeeded, no mode starts a resign-leadership operation again
NoSecondResign ==
    [][(resigned /\ ModeMoves) => StartedOp.kind # "resignLeadership"]_vars

\* a resign-leadership operation has been started in Continue after the dying
\* loop's resign succeeded
NoSecondResignWitness ==
    /\ resigned /\ mode = "Continue" /\ pc = "leadership"
    /\ op = newResignLeadershipOp /\ unitDying
\* ... and by the dying loop itself, entered a second time
SecondDyingResignWitness ==
    /\ resigned /\ mode = "Abide" /\ pc = "dying.resign"
    /\ op = newResignLeadershipOp

\* C33: leadership in HookError. No step of HookError starts accept-leadership.
\* Resign-leadership is started only by the select, only with the invocation's
\* one WaitMinion ticket, which exists only with leadership on and the
\* persisted Leader true at entry, and only when the tracker reports the loss;
\* the ticket is then gone and is never taken again in this invocation, so at
\* most one resign is started. When the resign succeeds the mode sets the error
\* status of the same failed hook again and waits at its select (or returns
\* the error of SetAgentStatus); when it fails the mode returns its error and
\* no next mode, and the hosting loop ends.
HookErrorLeadership ==
    [][ /\ (mode = "HookError" /\ ModeMoves)
           => StartedOp.kind # "acceptLeadership"
        /\ (mode = "HookError" /\ ModeMoves
              /\ StartedOp.kind = "resignLeadership")
           => /\ HookErrorSelect /\ pc' = "hookError.resign"
              /\ StartedOp = newResignLeadershipOp
              /\ leaderDeposed /\ ~leaderDeposed' /\ ~isLeader
              /\ leaderElection /\ local.Leader /\ opState.Leader
        /\ HookErrorEntry
           => leaderDeposed' = (pc' = "hookError.select" /\ leaderElection
                                 /\ opState.Leader)
        /\ (mode = "HookError" /\ ModeMoves /\ ~HookErrorEntry)
           => (leaderDeposed' => leaderDeposed)
        /\ HookErrorResign
           => /\ StartedOp = NoOp /\ ~leaderDeposed /\ ~leaderDeposed'
              /\ result = "ok"
                   => \/ /\ pc' = "hookError.select" /\ mode' = "HookError"
                         /\ local' = local
                         /\ status' = [state |-> "error", hook |-> local.Hook]
                      \/ CallFailed("SetAgentStatus")
              /\ result # "ok"
                   => /\ ModeReturns /\ ret'.next = "nil"
                      /\ ret'.err.cause = result /\ mode' = "Exited"
      ]_vars
\* HookError waits again for the failed hook after its resign-leadership
\* succeeded: the persisted Leader is false now, no ticket is left
HookErrorLeadershipWitness ==
    /\ mode = "HookError" /\ pc = "hookError.select" /\ leaderElection
    /\ local.Leader /\ ~opState.Leader /\ ~leaderDeposed /\ ~isLeader
    /\ HookPending(opState) /\ opState.Hook = local.Hook
    /\ status = [state |-> "error", hook |-> local.Hook]
\* the resign-leadership of HookError failed and ended the loop
HookErrorResignFailedWitness ==
    /\ mode = "Exited" /\ ret.from = "HookError" /\ ret.next = "nil"
    /\ ret.err.cause = "other" /\ opState.Leader /\ ~isLeader
    /\ HookPending(opState)

\* C34 as stated: an entry of Abide with leadership on that gets past Fix
\* wants leader-settings events exactly when the persisted Leader is false;
\* the prelude starts leader-settings-changed only for a unit that is not
\* leader and has not run that hook in this process; and no step of Abide,
\* prelude or loop, starts leader-settings-changed while the persisted Leader
\* is true.
LeaderSettingsStarted ==
    /\ mode = "Abide" /\ ModeMoves
    /\ StartedOp = newSimpleRunHookOp(LeaderSettingsChanged)
LeaderSettingsForMinions ==
    [][ /\ (AbideEntry /\ leaderElection /\ opState.Kind = "Continue"
              /\ ~CallFailed("Fix"))
           => (wantLeaderSettings' = ~opState.Leader \/ pc' = "exited")
        /\ (mode = "Abide" /\ ModeMoves /\ pc' = "abide.leaderSettings")
           => /\ AbideEntry /\ LeaderSettingsStarted /\ leaderElection
              /\ ~opState.Leader /\ ~ranLeaderSettingsChanged
        /\ LeaderSettingsStarted => ~opState.Leader
      ]_vars
\* the same without the loops: what the prelude does
LeaderSettingsPrelude ==
    [][ /\ (AbideEntry /\ leaderElection /\ opState.Kind = "Continue"
              /\ ~CallFailed("Fix"))
           => (wantLeaderSettings' = ~opState.Leader \/ pc' = "exited")
        /\ (mode = "Abide" /\ ModeMoves /\ pc' = "abide.leaderSettings")
           => /\ AbideEntry /\ LeaderSettingsStarted /\ leaderElection
              /\ ~opState.Leader /\ ~ranLeaderSettingsChanged
        /\ (LeaderSettingsStarted /\ pc' # "alive.op") => ~opState.Leader
      ]_vars

\* the alive loop has started leader-settings-changed for a unit that accepted
\* leadership in the same loop
LeaderSettingsForMinionsWitness ==
    /\ mode = "Abide" /\ pc = "alive.op" /\ leaderElection
    /\ op = newSimpleRunHookOp(LeaderSettingsChanged)
    /\ opState.Leader /\ wantLeaderSettings

\* The step the running mode takes next (modes.go 28-454): the mode function
\* at its entry, the continuation after an operation, or the select case c.
ModeFunction(m, c) ==
    CASE m.pc = "entry" /\ m.mode = "Continue" -> ModeContinue(m)
      [] m.pc = "entry" /\ m.mode = "Installing" -> ModeInstalling(m)
      [] m.pc = "entry" /\ m.mode = "Upgrading" -> ModeUpgrading(m)
      [] m.pc = "entry" /\ m.mode = "Abide" -> ModeAbide(m)
      [] m.pc = "entry" /\ m.mode = "Terminating" -> ModeTerminating(m)
      [] m.pc = "entry" /\ m.mode = "HookError" -> ModeHookError(m)
      [] m.pc = "entry" /\ m.mode = "Conflicted" -> ModeConflicted(m)
      [] m.pc = "leadership" -> ContinueLeadershipReturn(m)
      [] m.pc = "continueAfter" -> continueAfterReturn(m)
      [] m.pc = "abide.leaderSettings" -> AbideLeaderSettingsReturn(m)
      [] m.pc = "alive.select" -> modeAbideAliveLoop(m, c)
      [] m.pc = "alive.op" -> AliveOpReturn(m)
      [] m.pc = "dying.resign" -> DyingResignReturn(m)
      [] m.pc = "dying.select" -> DyingLoopCase(m, c)
      [] m.pc = "dying.op" -> DyingOpReturn(m)
      [] m.pc = "terminating.select" -> TerminatingCase(m, c)
      [] m.pc = "terminating.op" -> TerminatingOpReturn(m)
      [] m.pc = "hookError.select" -> HookErrorCase(m, c)
      [] m.pc = "hookError.resolved" -> HookErrorResolvedReturn(m)
      [] m.pc = "hookError.resign" -> HookErrorResignReturn(m)
      [] m.pc = "conflicted.select" -> ConflictedCase(m, c)
      [] OTHER -> m

\* the mode is about to take a step: at its entry, at a select with a case
\* ready, or at the return of the operation it ran
ModeReady ==
    \/ pc = "entry"
    \/ pc \in SelectPcs
    \/ pc \notin {"entry", "exited"} \cup SelectPcs /\ result # "none"

\* what the step reads: the invocation's record, the failing call o, and the
\* cases that are ready at a select
StepRecord(o) == IF pc = "entry" THEN Invoke(o) ELSE Cur(o)
StepCases ==
    IF pc \in SelectPcs
    THEN {c \in {Tomb} : tombDying /\ "tomb" \in SelectStreams}
         \cup {c \in {UnitDying} : unitDying /\ "unitDying" \in SelectStreams}
         \cup {e \in ready : Stream(e) \in SelectStreams}
    ELSE {Tomb}
StepCalls ==
    {"initializeMetricsCollector", "SetAgentStatus", "Fix", "Watch",
     "HasSubordinates", "EnsureDead", "relations.Name"} \cup DyingCalls

\* the same invocation with the leadership feature on and a tracker whose
\* claim resolves to what the persisted state says
LeadershipOnAgreeing(m) ==
    [m EXCEPT !.oracle = [stopHooksFails |-> m.oracle.stopHooksFails,
                          fails |-> m.oracle.fails,
                          flag |-> TRUE, claim |-> m.opState.Leader]]

\* a step's outcome without what only leadership reads or writes
WithoutLeadership(m) ==
    [m EXCEPT !.oracle = [stopHooksFails |-> FALSE, fails |-> NoFail],
              !.claimed = FALSE,
              !.leaderElected = FALSE, !.leaderDeposed = FALSE,
              !.wantLeaderSettings = FALSE]

\* C35 as stated: with the leadership feature off every step of every mode
\* does exactly what it does with the feature on and a tracker that always
\* agrees with the persisted state.
LeadershipOffSameAsAgreeing ==
    (~leaderElection /\ ModeReady)
    => \A o \in Oracles(StepCalls) : \A c \in StepCases :
          WithoutLeadership(ModeFunction(LeadershipOnAgreeing(StepRecord(o)), c))
          = WithoutLeadership(ModeFunction(StepRecord(o), c))

\* C35 (amended): with the leadership feature off every step of every mode
\* does what it does with the feature on and an agreeing tracker, except
\* that with the feature on the Abide prelude of a unit that is not leader
\* first runs the leader-settings-changed hook (once per process) and then
\* goes on as the prelude with the feature off does.
LeadershipOffInert ==
    (~leaderElection /\ ModeReady)
    => \A o \in Oracles(StepCalls) : \A c \in StepCases :
          LET off == ModeFunction(StepRecord(o), c)
              on == ModeFunction(LeadershipOnAgreeing(StepRecord(o)), c)
          IN IF on.pc = "abide.leaderSettings" /\ pc = "entry"
             THEN /\ mode = "Abide" /\ ~opState.Leader
                  /\ ~ranLeaderSettingsChanged
                  /\ on.op = newSimpleRunHookOp(LeaderSettingsChanged)
                  /\ off.op # newSimpleRunHookOp(LeaderSettingsChanged)
                  /\ WithoutLeadership(AbideLeaderSettingsReturn(
                        [on EXCEPT !.result = "ok", !.inflight = inflight]))
                     = WithoutLeadership(off)
             ELSE WithoutLeadership(on) = WithoutLeadership(off)

\* C35: with the leadership feature off no mode starts a leadership
\* operation, claims the tracker, arms a leadership ticket or wants
\* leader-settings events.
LeadershipOffSilent ==
    [][(~leaderElection /\ ModeMoves)
       => /\ StartedOp.kind \notin LeaderOpKinds
          /\ StartedOp # newSimpleRunHookOp(LeaderSettingsChanged)
          /\ ~claimed' /\ ~leaderElected' /\ ~leaderDeposed'
          /\ ~wantLeaderSettings']_vars

\* C35 (amended), both parts: with the leadership feature off the modes are
\* silent about leadership, and every step agrees with the feature on and an
\* agreeing tracker up to the leader-settings-changed hook of the Abide
\* prelude.
LeadershipOffAgrees == LeadershipOffSilent /\ []LeadershipOffInert

\* the feature is off and Abide is entered with config-changed and start
\* already run: with the feature on this entry would run the
\* leader-settings-changed hook, with it off it goes straight to the loop
LeadershipOffAgreesWitness ==
    /\ ~leaderElection
    /\ mode = "Abide" /\ pc = "entry" /\ opState.Kind = "Continue"
    /\ ranConfigChanged /\ opState.Started /\ ~opState.Leader
    /\ ~ranLeaderSettingsChanged

\* C36: no mode invocation returns both a next mode and an error: whenever
\* the returned error is not nil the returned next mode is nil.
NextOrError ==
    [][ModeReturns => (ret'.err = NilErr \/ ret'.next = "nil")]_vars

\* the alive loop has chosen ModeUpgrading and ModeAbide's deferred StopHooks
\* fails: the invocation has returned the mode and the error together
NextAndErrorWitness ==
    /\ ret.from = "Abide" /\ ret.next = "Upgrading"
    /\ ret.err.cause = "StopHooksFailed" /\ pc = "exited"

\* the same after the stop hook of the dying loop: ModeContinue and the error
ContinueAndErrorWitness ==
    /\ ret.from = "Abide" /\ ret.next = "Continue"
    /\ ret.err.cause = "StopHooksFailed" /\ pc = "exited"

\* outside ModeAbide the two never come together
NextOrErrorElsewhere ==
    [][(ModeReturns /\ ret'.from # "Abide")
       => (ret'.err = NilErr \/ ret'.next = "nil")]_vars

\* C37: the relation hook feed is started only by ModeAbide, after its
\* prelude (config-changed and start have run, the status is active), and
\* only when it is not running; every exit of ModeAbide stops it; so it runs
\* only while ModeAbide is in one of its loops.
\* (the dying loop's stop hook runs under continueAfter, modes.go 329-330)
AbideLoopPcs == {"alive.select", "alive.op", "continueAfter"} \cup DyingPcs
HookFeedOnlyInAbide ==
    /\ [](hooksRunning => (mode = "Abide" /\ pc \in AbideLoopPcs))
    /\ [][(~hooksRunning /\ hooksRunning')
          => /\ AbideStepsToLoop
             /\ ranConfigChanged /\ opState.Started
             /\ status'.state = "active"
             /\ mode' = "Abide"
             /\ pc' \in AbideLoopPcs \ {"alive.op", "dying.op"}]_vars
    /\ [][AbideStepsToLoop => ~hooksRunning]_vars
    /\ [][(hooksRunning /\ (mode' # "Abide" \/ pc' \notin AbideLoopPcs))
          => (~hooksRunning' /\ (ModeMoves \/ Restart))]_vars
    /\ [][(hooksRunning /\ ModeReturns)
          => (ret'.from = "Abide" /\ ~hooksRunning')]_vars

\* ModeAbide has returned ModeUpgrading from the alive loop with the feed
\* running, and the feed is stopped
HookFeedStoppedWitness ==
    /\ mode = "Upgrading" /\ pc = "entry" /\ ret.from = "Abide"
    /\ ret.next = "Upgrading" /\ ~hooksRunning /\ status.state = "active"

\* the feed is running in the dying loop
HookFeedDyingWitness ==
    hooksRunning /\ mode = "Abide" /\ pc = "dying.select"

\* C38: in the alive loop at most one of the tickets leaderElected and
\* leaderDeposed is armed; leaderDeposed armed implies persisted Leader,
\* leaderElected armed implies persisted not Leader; the loop starts
\* accept-leadership only on the leaderElected ticket with Leader false and
\* resign-leadership only on the leaderDeposed ticket with Leader true; and
\* after the first arming a ticket is armed only when the operation the
\* previous ticket started has succeeded.
AlivePcs == {"alive.select", "alive.op"}
TicketArmed ==
    \/ leaderElected' /\ ~leaderElected
    \/ leaderDeposed' /\ ~leaderDeposed
AliveLeadershipTickets ==
    /\ []((mode = "Abide" /\ pc \in AlivePcs)
          => /\ ~(leaderElected /\ leaderDeposed)
             /\ leaderDeposed => opState.Leader
             /\ leaderElected => ~opState.Leader)
    /\ [][(ModeMoves /\ mode = "Abide" /\ pc \in AlivePcs)
          => /\ StartedOp.kind = "acceptLeadership"
                => /\ leaderElected /\ ~leaderElected' /\ ~opState.Leader
                   /\ AliveSelect
             /\ StartedOp.kind = "resignLeadership"
                => /\ leaderDeposed /\ ~leaderDeposed' /\ opState.Leader
                   /\ AliveSelect]_vars
    /\ [][(ModeMoves /\ mode = "Abide" /\ pc' \in AlivePcs /\ TicketArmed)
          => \/ AbideStepsToLoop /\ pc' = "alive.select"
             \/ /\ AliveOp /\ result = "ok" /\ pc' = "alive.select"
                /\ \/ /\ op.kind = "acceptLeadership"
                      /\ opState.Leader /\ leaderDeposed'
                   \/ /\ op.kind = "resignLeadership"
                      /\ ~opState.Leader /\ leaderElected']_vars

\* the loop has taken the leaderDeposed ticket and runs resign-leadership
AliveLeadershipTicketsWitness ==
    /\ mode = "Abide" /\ pc = "alive.op" /\ op.kind = "resignLeadership"
    /\ opState.Leader /\ ~leaderDeposed /\ ~leaderElected

\* accept-leadership has succeeded in the loop: the next iteration arms
\* leaderDeposed
AliveRearmedWitness ==
    /\ mode = "Abide" /\ pc = "alive.op" /\ op.kind = "acceptLeadership"
    /\ result = "ok" /\ opState.Leader /\ ~leaderDeposed /\ ~leaderElected

\* C39: the next mode a mode returns is one the table allows: Continue
\* returns Continue, Installing, Upgrading, HookError, Terminating or Abide;
\* Installing, Upgrading and Conflicted return Continue; Abide and HookError
\* return Continue or Upgrading; Terminating returns no mode. A mode other
\* than Continue returns Upgrading only from the select of the alive loop or
\* of HookError, for an upgrade event that is ready, with that event's charm.
HandOvers ==
    [Continue |-> {"Continue", "Installing", "Upgrading", "HookError",
                   "Terminating", "Abide"},
     Installing |-> {"Continue"},
     Upgrading |-> {"Continue"},
     Conflicted |-> {"Continue"},
     Abide |-> {"Continue", "Upgrading"},
     HookError |-> {"Continue", "Upgrading"},
     Terminating |-> {}]
ModeHandOvers ==
    /\ [][(ModeReturns /\ ret'.next # "nil")
          => /\ ret'.from = mode /\ mode \in DOMAIN HandOvers
             /\ ret'.next \in HandOvers[mode]]_vars
    /\ [][(ModeReturns /\ ret'.next = "Upgrading" /\ mode # "Continue")
          => /\ \/ AliveSelect /\ pc = "alive.select"
                \/ HookErrorSelect /\ pc = "hookError.select"
             /\ \E e \in ready : Stream(e) = "upgrade" /\ ret'.curl = e[2]]_vars
    /\ [][(ModeMoves /\ mode' # mode /\ mode' \in DOMAIN HandOvers
             /\ ret'.err = NilErr)
          => mode' = ret'.next]_vars

\* ModeHookError has returned ModeUpgrading for an upgrade event
ModeHandOversWitness ==
    /\ ret.from = "HookError" /\ ret.next = "Upgrading" /\ ret.curl # NoCurl
    /\ mode = "Upgrading" /\ pc = "entry" /\ modeCurl = ret.curl

\* ModeConflicted has returned ModeContinue
ConflictedHandsOverWitness ==
    /\ ret.from = "Conflicted" /\ ret.next = "Continue"
    /\ mode = "Continue" /\ pc = "entry"

\* The unit watcher of ModeTerminating (modes.go 147, 160) has its own
\* channel: a change can be waiting on it while an action request is ready
\* or an action is running.
WatcherChange ==
    /\ mode = "Terminating" /\ pc \in {"terminating.select", "terminating.op"}
    /\ UnitChange \notin ready
    /\ \A f \in ready : Stream(f) # "unitChange"
    /\ ready' = ready \cup {UnitChange}
    /\ UNCHANGED <<isLeader, tombDying, unitDying, hasSubs>>
    /\ EnvFrame

\* ... and an action request can arrive while the change is waiting
\* (modes.go 155): the two sources are independent of each other
ActionRequest ==
    /\ mode = "Terminating" /\ pc = "terminating.select"
    /\ UnitChange \in ready
    /\ \A f \in ready : Stream(f) # "action"
    /\ ready' = ready \cup {<<"action", 0>>}
    /\ UNCHANGED <<isLeader, tombDying, unitDying, hasSubs>>
    /\ EnvFrame

\* the select of ModeTerminating takes the watcher's change (modes.go 160)
TerminatingUnitChange ==
    /\ pc = "terminating.select" /\ UnitChange \in ready
    /\ \E o \in Oracles({"Refresh", "HasSubordinates", "EnsureDead"}) :
          ModeStep(TerminatingCase(Cur(o), UnitChange))

\* The scheduling the liveness of ModeTerminating rests on: an operation
\* handed to the executor goes through its steps and returns, the mode goes
\* on after it, and the select, which chooses at random among its ready
\* cases, does not pass over a change that is ready again and again.
NextLive == Next \/ WatcherChange \/ ActionRequest
Fairness ==
    /\ WF_vars(ExecPrepare) /\ WF_vars(ExecExecute) /\ WF_vars(ExecCommit)
    /\ WF_vars(TerminatingOp)
    /\ SF_vars(TerminatingUnitChange)
SpecLive == Init /\ [][NextLive]_vars /\ Fairness

TerminatedDead ==
    /\ dead /\ pc = "exited" /\ ret.from = "Terminating"
    /\ ret.next = "nil" /\ ret.err.cause = ErrTerminateAgent
TerminatingFailed ==
    /\ pc = "exited" /\ ret.from = "Terminating"
    /\ ret.err.cause # ErrTerminateAgent
AgentRestarted == mode = "Continue" /\ pc = "entry" /\ ret = NoRet

\* C40: in ModeTerminating, once the unit has no subordinates and a change
\* of the unit is waiting on the watcher, the mode marks the unit dead and
\* returns ErrTerminateAgent, unless it is cancelled, a call or an action
\* fails, or the agent is restarted; action requests that keep arriving do
\* not prevent it.
TerminatingCompletes ==
    (mode = "Terminating" /\ ~hasSubs /\ UnitChange \in ready)
    ~> (TerminatedDead \/ tombDying \/ TerminatingFailed \/ AgentRestarted)

\* the change is waiting while an action runs in ModeTerminating and the
\* unit has no subordinates
TerminatingCompletesWitness ==
    /\ mode = "Terminating" /\ pc = "terminating.op" /\ op.kind = "action"
    /\ ~hasSubs /\ UnitChange \in ready /\ ~tombDying

\* an action request and the change are ready together at the select
TerminatingRaceWitness ==
    /\ mode = "Terminating" /\ pc = "terminating.select" /\ ~hasSubs
    /\ {UnitChange, <<"action", 0>>} \subseteq ready /\ ~tombDying

\* ModeTerminating is entered for a unit that has no subordinates
TerminatingNoSubordinatesWitness ==
    mode = "Terminating" /\ pc = "entry" /\ ~hasSubs

\* the unit is dead and ModeTerminating has returned ErrTerminateAgent
TerminatedDeadWitness == TerminatedDead /\ ~tombDying

(* ----------------------- juju unregister ------------------------------- *)
MaxControllers == 2
ControllerNames == 1..MaxControllers
NoController == 0

\* a store in which every registered controller may have models and accounts
ClientStores ==
    {store \in [Controllers : SUBSET ControllerNames,
                Models : SUBSET ControllerNames,
                Accounts : SUBSET ControllerNames,
                CurrentControllerName : ControllerNames \cup {NoController}] :
        /\ store.Models \subseteq store.Controllers
        /\ store.Accounts \subseteq store.Controllers
        /\ store.CurrentControllerName \in
              store.Controllers \cup {NoController}}

\* ClientStore.ControllerByName: the error it returns
ControllerByName(store, name) ==
    IF name \in store.Controllers THEN NilErr ELSE Err("NotFound")

\* ClientStore.RemoveController: the controller goes with its models and
\* accounts; the current controller is forgotten when it is the one removed
RemoveController(store, name) ==
    [Controllers |-> store.Controllers \ {name},
     Models |-> store.Models \ {name},
     Accounts |-> store.Accounts \ {name},
     CurrentControllerName |->
        IF store.CurrentControllerName = name THEN NoController
        ELSE store.CurrentControllerName]

\* what the user types at the prompt, and jujucmd.UserConfirmYes on it
Answers == {"y", "Y", "yes", "YES", "n", ""}
UserConfirmYes(answer) ==
    IF answer \in {"y", "Y", "yes", "YES"} THEN NilErr ELSE Err("aborted")

\* unregisterCommand.Run that removes the controller before it asks
unregisterRunRemovesFirst(store, c, answer) ==
    IF ControllerByName(store, c.controllerName) # NilErr
    THEN [store |-> store, asked |-> FALSE,
          err |-> ControllerByName(store, c.controllerName)]
    ELSE IF ~c.assumeYes /\ UserConfirmYes(answer) # NilErr
    THEN [store |-> RemoveController(store, c.controllerName), asked |-> TRUE,
          err |-> Annotatef(UserConfirmYes(answer),
                            "controller unregistration")]
    ELSE [store |-> RemoveController(store, c.controllerName),
          asked |-> ~c.assumeYes, err |-> NilErr]

\* unregisterCommand.Run: the store it leaves, whether it printed
\* unregisterMsg and asked, and the error it returns
unregisterRun(store, c, answer) ==
    IF ControllerByName(store, c.controllerName) # NilErr
    THEN [store |-> store, asked |-> FALSE,
          err |-> ControllerByName(store, c.controllerName)]
    ELSE IF ~c.assumeYes /\ UserConfirmYes(answer) # NilErr
    THEN [store |-> store, asked |-> TRUE,
          err |-> Annotatef(UserConfirmYes(answer),
                            "controller unregistration")]
    ELSE [store |-> RemoveController(store, c.controllerName),
          asked |-> ~c.assumeYes, err |-> NilErr]

\* juju unregister <name> [-y], with what the user answers if asked
Unregister ==
    \E name \in ControllerNames, yes \in BOOLEAN, answer \in Answers :
        LET c == [controllerName |-> name, assumeYes |-> yes]
            r == unregisterRun(clientStore, c, answer)
        IN /\ clientStore' = r.store
           /\ command' = [cmd |-> "unregister", controllerName |-> name,
                          assumeYes |-> yes,
                          answer |-> IF r.asked THEN answer ELSE "",
                          asked |-> r.asked, err |-> r.err]
           /\ UNCHANGED <<uniterVars, configStore>>

\* no unit agent runs next to the command line
NoUniter ==
    /\ mode = "Exited" /\ modeCurl = NoCurl /\ pc = "exited"
    /\ local = NoLocal /\ leaderElected = FALSE /\ leaderDeposed = FALSE
    /\ ret = NoRet /\ exitErr = NilErr
    /\ claimed = FALSE /\ before = NoLocal
    /\ op = NoOp /\ result = "none" /\ inflight = 0
    /\ status = NoStatus
    /\ wantResolved = FALSE /\ wantUpgrade = "none"
    /\ wantLeaderSettings = FALSE
    /\ hooksRunning = FALSE /\ relsDying = FALSE /\ dead = FALSE
    /\ ready = {}
    /\ opState = NoLocal
    /\ ranConfigChanged = FALSE /\ ranLeaderSettingsChanged = FALSE
    /\ isLeader = FALSE /\ leaderElection = FALSE
    /\ tombDying = FALSE /\ unitDying = FALSE
    /\ hasSubs = FALSE
    /\ nRel = 0
    /\ resume = NoResume /\ resigned = FALSE

InitUnregister ==
    /\ NoUniter
    /\ clientStore \in ClientStores
    /\ configStore = NoConfigStore
    /\ command = NoCommand
SpecUnregister == InitUnregister /\ [][Unregister]_vars

MaxModels == 2
ModelNames == {"test", "prod"}
UUIDs == 1..MaxModels
NoUUID == 0

\* a user as typed or stored: name@domain, or the name alone
User(n, d) == [name |-> n, domain |-> d]
NoUser == User("", "")
UserNames == {"bob", "mary"}
Users == {User(n, d) : n \in UserNames, d \in {"", "local"}}
\* names.NewUserTag(u).Canonical(): a user without a domain is a local user
Canonical(u) == IF u.domain = "" THEN User(u.name, "local") ELSE u

\* base.UserModel as ListModels returns it: the owner is in canonical form
UserModel(n, id, o) == [Name |-> n, UUID |-> id, Owner |-> o]
empty == UserModel("", NoUUID, NoUser)
UserModels ==
    {UserModel(n, id, Canonical(o)) :
        n \in ModelNames, id \in UUIDs, o \in Users}
\* the models a user can access, in the order the controller lists them; model
\* UUIDs are unique
ModelLists ==
    UNION {{l \in [1..n -> UserModels] :
                \A i, j \in 1..n : i # j => l[i].UUID # l[j].UUID} :
           n \in 0..MaxModels}
\* client.ListModels: the list, or an error
Listings ==
    {[envs |-> l, failed |-> FALSE] : l \in ModelLists}
    \cup {[envs |-> <<>>, failed |-> TRUE]}

\* what Init leaves in the command for <owner>/<name>, <name>, <owner>/<uuid>
\* and <uuid>: a UUID is taken out of EnvName
UseModelArgs ==
    {c \in [Owner : Users \cup {NoUser}, EnvName : ModelNames \cup {""},
            EnvUUID : UUIDs \cup {NoUUID}] :
        /\ c.EnvUUID # NoUUID => c.EnvName = ""
        /\ (c.EnvUUID = NoUUID /\ c.EnvName = "") => c.Owner # NoUser}

\* the first model of the list with the UUID, or empty
RECURSIVE WithUUID(_, _)
WithUUID(envs, uuid) ==
    IF envs = <<>> THEN empty
    ELSE IF Head(envs).UUID = uuid THEN Head(envs)
    ELSE WithUUID(Tail(envs), uuid)

\* the models of the list that match the name and, if given, the owner
RECURSIVE Matches(_, _, _)
Matches(envs, name, owner) ==
    IF envs = <<>> THEN <<>>
    ELSE LET env == Head(envs)
             match == env.Name = name /\ (owner # NoUser => env.Owner = owner)
         IN (IF match THEN <<env>> ELSE <<>>)
            \o Matches(Tail(envs), name, owner)

Found(env, err, info) == [env |-> env, err |-> err, info |-> info]

\* findMatchingEnvironment taking the first of several matches
findMatchingEnvironmentFirstMatch(listed, c) ==
    LET envs == listed.envs
        owner == IF c.Owner # NoUser THEN Canonical(c.Owner) ELSE NoUser
        byUUID == WithUUID(envs, c.EnvUUID)
        matches == Matches(envs, c.EnvName, owner)
    IN IF listed.failed
       THEN Found(empty, Annotatef(Err("ListModels"), "cannot list models"),
                  <<>>)
       ELSE IF c.EnvUUID # NoUUID
       THEN IF byUUID # empty
            THEN Found(byUUID, NilErr,
                       IF owner # NoUser /\ byUUID.Owner # owner
                       THEN <<<<"Specified model owned by", byUUID.Owner,
                                owner>>>>
                       ELSE <<>>)
            ELSE Found(empty, Err("NotFound"), <<>>)
       ELSE IF Len(matches) = 0 THEN Found(empty, Err("NotFound"), <<>>)
       ELSE Found(matches[1], NilErr, <<>>)

\* useEnvironmentCommand.findMatchingEnvironment: the model, the error, and
\* what it tells the user
findMatchingEnvironment(listed, c) ==
    LET envs == listed.envs
        owner == IF c.Owner # NoUser THEN Canonical(c.Owner) ELSE NoUser
        byUUID == WithUUID(envs, c.EnvUUID)
        matches == Matches(envs, c.EnvName, owner)
    IN IF listed.failed
       THEN Found(empty, Annotatef(Err("ListModels"), "cannot list models"),
                  <<>>)
       ELSE IF c.EnvUUID # NoUUID
       THEN IF byUUID # empty
            THEN Found(byUUID, NilErr,
                       IF owner # NoUser /\ byUUID.Owner # owner
                       THEN <<<<"Specified model owned by", byUUID.Owner,
                                owner>>>>
                       ELSE <<>>)
            ELSE Found(empty, Err("NotFound"), <<>>)
       ELSE IF Len(matches) = 0 THEN Found(empty, Err("NotFound"), <<>>)
       ELSE IF Len(matches) = 1 THEN Found(matches[1], NilErr, <<>>)
       ELSE Found(empty, Err("multiple models matched"),
                  <<<<"Multiple models matched name", c.EnvName>>>>
                  \o [i \in 1..Len(matches) |->
                        <<matches[i].UUID, matches[i].Owner>>]
                  \o <<<<"Please specify either the model UUID or the owner">>>>)

\* findMatchingEnvironment is applied to a listing and a command
FindMatching ==
    /\ command.cmd = "findMatchingEnvironment" /\ ~command.done
    /\ command' = [command EXCEPT
                     !.done = TRUE,
                     !.found = findMatchingEnvironment(command.listed,
                                                       command.c)]
    /\ UNCHANGED <<uniterVars, clientStore, configStore>>

InitFind ==
    /\ NoUniter
    /\ clientStore = NoClientStore /\ configStore = NoConfigStore
    /\ \E l \in Listings, c \in UseModelArgs :
          command = [cmd |-> "findMatchingEnvironment", listed |-> l, c |-> c,
                     done |-> FALSE, found |-> Found(empty, NilErr, <<>>)]
SpecFind == InitFind /\ [][FindMatching]_vars

\* C25: what findMatchingEnvironment returns for a listing of the accessible
\* models. Given a UUID: the model of the listing with that UUID, whatever
\* owner was given (the owner differing gives a message to the user only), and
\* a not-found error when the listing has none. Given a name, with or without
\* an owner: the model that matches when exactly one does, a not-found error
\* when none does, and the error "multiple models matched" with no model when
\* several do.
ModelSelection ==
    (command.cmd = "findMatchingEnvironment" /\ command.done
     /\ ~command.listed.failed)
    => LET envs == command.listed.envs
           c == command.c
           r == command.found
           hasUUID == {i \in DOMAIN envs : envs[i].UUID = c.EnvUUID}
           named == {i \in DOMAIN envs :
                        /\ envs[i].Name = c.EnvName
                        /\ c.Owner # NoUser
                              => envs[i].Owner = Canonical(c.Owner)}
       IN IF c.EnvUUID # NoUUID
          THEN IF hasUUID = {}
               THEN r.err.cause = "NotFound" /\ r.env = empty
               ELSE /\ r.err = NilErr
                    /\ \A i \in hasUUID : r.env = envs[i]
                    /\ (r.info # <<>>)
                          <=> (c.Owner # NoUser
                               /\ r.env.Owner # Canonical(c.Owner))
          ELSE CASE Cardinality(named) = 0 ->
                        r.err.cause = "NotFound" /\ r.env = empty
                 [] Cardinality(named) = 1 ->
                        r.err = NilErr /\ \A i \in named : r.env = envs[i]
                 [] OTHER ->
                        /\ r.err.cause = "multiple models matched"
                        /\ r.env = empty
\* two accessible models have the name asked for, with different owners, no
\* owner was given, and the command got the error and no model
ModelSelectionWitness ==
    /\ command.cmd = "findMatchingEnvironment" /\ command.done
    /\ command.c.EnvName = "test" /\ command.c.Owner = NoUser
    /\ Len(command.listed.envs) = 2
    /\ command.listed.envs[1].Name = "test"
    /\ command.listed.envs[2].Name = "test"
    /\ command.listed.envs[1].Owner # command.listed.envs[2].Owner
    /\ command.found.err.cause = "multiple models matched"
    /\ command.found.env = empty
\* a model was asked for by UUID with an owner who does not own it, and was
\* returned with a message
ModelSelectionByUUIDWitness ==
    /\ command.cmd = "findMatchingEnvironment" /\ command.done
    /\ command.c.EnvUUID \in UUIDs /\ command.c.Owner = User("bob", "")
    /\ command.found.err = NilErr
    /\ command.found.env.UUID = command.c.EnvUUID
    /\ command.found.env.Owner = User("mary", "local")
    /\ command.found.info # <<>>

(* ---------------------- juju use-model: Run ---------------------------- *)
\* what findMatchingEnvironment can return to Run
FindResults ==
    {findMatchingEnvironment(l, c) : l \in Listings, c \in UseModelArgs}

\* the local names: --name, or the default built from the model
FlagNames == {"", "mine", "test"}
DefaultName(env, username) ==
    IF env.Owner = username THEN env.Name
    ELSE env.Owner.name \o "-" \o env.Name
LocalNames ==
    (FlagNames \ {""})
    \cup {DefaultName(env, u) : env \in UserModels,
                                u \in {Canonical(w) : w \in Users}}

\* a cached entry: the credentials and the endpoint with the model's UUID
NoInfo == [creds |-> [User |-> NoUser],
           endpoint |-> [EnvironUUID |-> NoUUID]]
Info(creds, endpoint, envUUID) ==
    [creds |-> creds, endpoint |-> [endpoint EXCEPT !.EnvironUUID = envUUID]]
\* the connection's credentials and endpoint
Credentials == {[User |-> u] : u \in Users}
ConnectionEndpoint == [EnvironUUID |-> NoUUID]

\* the calls of Run that can fail for reasons of their own
UseModelCalls ==
    {"getAPI", "getConnectionCredentials", "getConnectionEndpoint",
     "configstore.Default", "Write", "SetCurrentEnvironment"}

Ran(store, localName, err) ==
    [store |-> store, LocalName |-> localName, err |-> err]
\* envcmd.SetCurrentEnvironment(ctx, name), as the last call of Run
SetCurrentEnvironment(store, name, fails) ==
    IF fails = "SetCurrentEnvironment"
    THEN Ran(store, name, Err("SetCurrentEnvironment"))
    ELSE Ran([store EXCEPT !.current = name], name, NilErr)

\* Run writing the entry again when it finds it cached
useEnvironmentRunRewrites(store, localFlag, creds, found, fails) ==
    LET username == Canonical(creds.User)
        env == found.env
        localName == IF localFlag = "" THEN DefaultName(env, username)
                     ELSE localFlag
        existing == store.infos[localName]
        written == [store EXCEPT !.infos[localName] =
                        Info(creds, ConnectionEndpoint, env.UUID)]
    IN IF fails \in {"getAPI", "getConnectionCredentials",
                     "getConnectionEndpoint"}
       THEN Ran(store, "", Err(fails))
       ELSE IF found.err # NilErr THEN Ran(store, "", found.err)
       ELSE IF fails = "configstore.Default" THEN Ran(store, "", Err(fails))
       ELSE IF existing # NoInfo
       THEN IF existing.endpoint.EnvironUUID = env.UUID
               /\ Canonical(existing.creds.User) = username
            THEN SetCurrentEnvironment(written, localName, fails)
            ELSE Ran(store, localName, Err("existing model"))
       ELSE IF fails = "Write"
       THEN Ran(store, localName,
                Annotatef(Err("Write"), "failed to cache model details"))
       ELSE SetCurrentEnvironment(written, localName, fails)

\* useEnvironmentCommand.Run: the store it leaves, the local name it settled
\* on (none when it returned before), and the error it returns
useEnvironmentRun(store, localFlag, creds, found, fails) ==
    LET username == Canonical(creds.User)
        env == found.env
        localName == IF localFlag = "" THEN DefaultName(env, username)
                     ELSE localFlag
        existing == store.infos[localName]
        written == [store EXCEPT !.infos[localName] =
                        Info(creds, ConnectionEndpoint, env.UUID)]
    IN IF fails \in {"getAPI", "getConnectionCredentials",
                     "getConnectionEndpoint"}
       THEN Ran(store, "", Err(fails))
       ELSE IF found.err # NilErr THEN Ran(store, "", found.err)
       ELSE IF fails = "configstore.Default" THEN Ran(store, "", Err(fails))
       ELSE IF existing # NoInfo
       THEN IF existing.endpoint.EnvironUUID = env.UUID
               /\ Canonical(existing.creds.User) = username
            THEN SetCurrentEnvironment(store, localName, fails)
            ELSE Ran(store, localName, Err("existing model"))
       ELSE IF fails = "Write"
       THEN Ran(store, localName,
                Annotatef(Err("Write"), "failed to cache model details"))
       ELSE SetCurrentEnvironment(written, localName, fails)

\* juju use-model [--name <local>] <model>, run once
UseModel ==
    /\ command = NoCommand
    /\ \E localFlag \in FlagNames, creds \in Credentials,
          found \in FindResults, fails \in UseModelCalls \cup {NoFail} :
          LET r == useEnvironmentRun(configStore, localFlag, creds, found,
                                     fails)
          IN /\ configStore' = r.store
             /\ command' = [cmd |-> "use-model", flag |-> localFlag,
                            creds |-> creds, env |-> found.env,
                            LocalName |-> r.LocalName, err |-> r.err]
    /\ UNCHANGED <<uniterVars, clientStore>>

\* the stores use-model may find: nothing cached, or one entry, current or not
ConfigStores ==
    {[infos |-> [n \in LocalNames |-> NoInfo], current |-> ""]}
    \cup {[infos |-> [n \in LocalNames |->
                        IF n = e[1] THEN Info(e[2], ConnectionEndpoint, e[3])
                        ELSE NoInfo],
           current |-> IF e[4] THEN e[1] ELSE ""] :
            e \in LocalNames \X Credentials \X UUIDs \X BOOLEAN}

InitUseModel ==
    /\ NoUniter
    /\ clientStore = NoClientStore
    /\ configStore \in ConfigStores
    /\ command = NoCommand
SpecUseModel == InitUseModel /\ [][UseModel]_vars

\* C26: use-model rewrites no entry the store holds. When the store holds an
\* entry under the local name the command settled on, the store's entries
\* stay as they are; if the entry is for the UUID of the model found and for
\* the same user in canonical form, the command returns what switching the
\* current model to that name returns; otherwise it returns "existing model"
\* and the current model stays too. The entries change only by one new entry,
\* under a local name that had none.
NoOverwrite ==
    [][command'.cmd = "use-model" =>
        LET L == command'.LocalName
            old == configStore.infos
            new == configStore'.infos
            same == /\ old[L].endpoint.EnvironUUID = command'.env.UUID
                    /\ Canonical(old[L].creds.User)
                         = Canonical(command'.creds.User)
            switched ==
                \/ /\ command'.err = NilErr /\ configStore'.current = L
                \/ /\ command'.err.cause = "SetCurrentEnvironment"
                   /\ configStore'.current = configStore.current
        IN /\ \A n \in LocalNames : old[n] # NoInfo => new[n] = old[n]
           /\ L = "" => (configStore' = configStore /\ command'.err # NilErr)
           /\ (L # "" /\ old[L] # NoInfo)
                 => /\ new = old
                    /\ same => switched
                    /\ ~same => /\ command'.err.cause = "existing model"
                                /\ configStore' = configStore
           /\ new # old
                 => /\ L # "" /\ old[L] = NoInfo
                    /\ new = [old EXCEPT ![L] =
                                Info(command'.creds, ConnectionEndpoint,
                                     command'.env.UUID)]
                    /\ switched
           /\ command'.err.cause = "existing model"
                 => (L # "" /\ old[L] # NoInfo /\ ~same)
      ]_vars
\* the model was cached by bob@local; use-model run by bob found the entry for
\* the same model and only made it the current one
NoOverwriteWitness ==
    /\ command.cmd = "use-model" /\ command.err = NilErr
    /\ command.creds.User = User("bob", "")
    /\ command.LocalName = "test" /\ configStore.current = "test"
    /\ configStore.infos["test"].creds.User = User("bob", "local")
    /\ configStore.infos["test"].endpoint.EnvironUUID = command.env.UUID
\* the local name is taken by an entry for another model: "existing model"
ExistingModelWitness ==
    /\ command.cmd = "use-model" /\ command.err.cause = "existing model"
    /\ command.LocalName = "mary-test" /\ configStore.current = ""
    /\ configStore.infos["mary-test"] # NoInfo
    /\ configStore.infos["mary-test"].endpoint.EnvironUUID # command.env.UUID

====
